---- MODULE Spec2Model ----
(***************************************************************************)
(* Model of the decision-and-order-lifecycle engine of codex-project.      *)
(*                                                                         *)
(* The single-position engine, src/paper_trader.py: one run of main()      *)
(* after another, against a broker that fills, closes and cancels brackets *)
(* on its own schedule, with the process allowed to stop between any two   *)
(* steps and the state file allowed to be damaged between two runs.        *)
(*                                                                         *)
(*   Spec       the engine with a running clock                            *)
(*   SpecFlat   the engine within one instant of the clock, more brackets  *)
(*   SpecCap    the engine within one instant, brackets beyond the daily   *)
(*              cap                                                        *)
(*   SpecRecon  check_and_log_close on every state and broker report of    *)
(*              bounded size, called once and called again                 *)
(*   SpecScan   the engine with calls of the scan that raise               *)
(*   SpecConnect  the connect attempts of both engines, the runs of the    *)
(*              single-position engine on record                           *)
(*   SpecWatermark  the single-position engine started on every stored     *)
(*              state and watermark, the runs on record                    *)
(*   SpecReadState  read_state on every content of the state file          *)
(*   SpecLogs   the file operations of main on its two logs                *)
(*                                                                         *)
(* The multi-position loop engine, src/paper_trader_loop.py: one cycle of  *)
(* its main loop after another, against the same broker.                   *)
(*                                                                         *)
(*   LoopSpec   the loop engine                                            *)
(*   SpecCycle  the loop engine with the error handler, one cycle per      *)
(*              reading of the clock, the broker acting during the sleep   *)
(*   SpecPositions  the loop engine with more brackets than the position   *)
(*              limit                                                      *)
(*   SpecLive   the loop engine as a process that keeps taking its steps   *)
(*   SpecSuppress  the loop engine with every reason score_symbol returns, *)
(*              the requests of all cycles on record                       *)
(*   SpecBlock  the blacklist on its own: block, is_blocked and the clock  *)
(*                                                                         *)
(* Parts of both engines:                                                  *)
(*                                                                         *)
(*   SpecOrders place_bracket of either engine, one placeOrder at a time   *)
(*   SpecSizing calc_qty and the two position_size functions on prices     *)
(*   SpecScore  score_symbol and its indicators on bar series, with the    *)
(*              look-back lengths scaled down                              *)
(*   SpecSession  the session gates of the loop engine and of              *)
(*              src/paper_trader_us.py on every minute of a week           *)
(*                                                                         *)
(* Units: prices are integer cents, times are integer ticks of the UTC     *)
(* clock, a UTC day is TicksPerDay ticks.  An optional value (Python None) *)
(* is the empty sequence, a present value v is <<v>>.  The wall-clock      *)
(* column of the two logs (timestamp_utc) is left out of their rows.       *)
(***************************************************************************)
EXTENDS Integers, Sequences, FiniteSets, TLC

(***************************************************************************)
(* Bounds of the model                                                     *)
(***************************************************************************)
\* rows appended to one log file, and stops of the process (SpecLogs)
MaxLogRows == 2
MaxCrashes == 2

\* runs of main on record (SpecConnect)
MaxRuns == 2

\* errors raised in the scan of the single-position engine (SpecScan)
MaxScanErrors == 1

\* last tick of the clock (Spec)
MaxTime == 1
\* ticks per UTC day
TicksPerDay == 1
\* brackets the broker accepts over a behaviour with a running clock (Spec)
MaxBrackets == 1
\* brackets the broker accepts over a behaviour within one instant (SpecFlat)
MaxBracketsFlat == 2
\* brackets the broker accepts over a behaviour of the daily cap (SpecCap)
MaxBracketsCap == 3
\* rows the close log takes over a behaviour
MaxCloseRows == 2
\* executions the broker reports to one reconciliation (SpecRecon)
MaxExecs == 2
\* latest time stamp of what one reconciliation is given (SpecRecon)
MaxStamp == 2

(***************************************************************************)
(* Configuration of src/paper_trader.py                                    *)
(***************************************************************************)
TICKERS == <<"SPY", "QQQ">>
ACCOUNT_EQUITY_DKK == 5000
\* RISK_PER_TRADE_PCT = 0.01, in 1/10000
RISK_PER_TRADE_BP == 100
\* STOP_LOSS_PCT = 0.007, in 1/1000
STOP_LOSS_PM == 7
\* TAKE_PROFIT_PCT = 0.012, in 1/1000
TAKE_PROFIT_PM == 12
MAX_TRADES_PER_DAY == 2
\* connect attempts of main: range(1, 4)
CONNECT_ATTEMPTS == 3

None == << >>
Some(v) == <<v>>

\* a quote field that is None or NaN
NoQuote == -1
\* quotes a snapshot may carry, in cents: no quote, 100.00, 7200.00
Quotes == {NoQuote, 10000, 720000}

VARIABLES
    now,          \* the UTC clock
    file,         \* bot_state.json: [status, data]
    entryLog,     \* trade_log.csv, rows after the header
    closeLog,     \* trade_close_log.csv, rows after the header
    brackets,     \* the broker's book: one record per submitted bracket
    placedDays,   \* the UTC day each bracket was submitted on, by bracket
    execs,        \* the broker's executions, in the order they happened
    pc,           \* position of the running main(), "idle" when no process runs
    state,        \* main's in-memory state dict
    attempt,      \* connect attempt of the running main()
    idx,          \* index into TICKERS of the scan loop
    placed,       \* main's locals after place_bracket: None or <<[sym, qty, tp, sl, order_id]>>
    ibPositions,  \* ib.positions() as last synchronised by the client
    ibOpenOrders, \* ib.openOrders() as last synchronised by the client
    ibExecs,      \* ib.executions() as last synchronised by the client
    wrote,        \* the last step of the running main wrote bot_state.json
    branch,       \* the branch the last check_and_log_close took
    resetDays,    \* the UTC days on which reset_state_if_new_day reset, in order
    BLACKLIST,    \* paper_trader_loop: key -> until, the keys never blocked left out
    candidates,   \* paper_trader_loop: the candidates of the cycle
    trades,       \* paper_trader_loop: brackets placed in the dispatch of the cycle
    sessions,     \* paper_trader_loop: [u_open, e_open] as read at the top of the cycle
    wire,         \* the orders a place_bracket call handed to placeOrder, in order
    calls         \* the calls of a function examined on its own, in order

\* the variables of the loop engine alone
loopVars == <<BLACKLIST, candidates, trades, sessions>>

\* the variables of the functions examined on their own
harnessVars == <<wire, calls>>

\* the variables of the single-position engine alone
traderVars == <<file, entryLog, closeLog, placedDays, state, attempt, placed,
                ibOpenOrders, ibExecs, wrote, branch, resetDays>>

vars == <<now, file, entryLog, closeLog, brackets, placedDays, execs, pc, state, attempt,
          idx, placed, ibPositions, ibOpenOrders, ibExecs, wrote, branch, resetDays,
          BLACKLIST, candidates, trades, sessions, wire, calls>>

(***************************************************************************)
(* Utilities                                                               *)
(***************************************************************************)
\* today_utc_str(): the UTC calendar day of the clock
today_utc_str == now \div TicksPerDay

DayOf(t) == t \div TicksPerDay

\* the state dict every fallback of read_state returns
DefaultState ==
    [date |-> today_utc_str, trades_today |-> 0,
     open_position |-> None, last_close_time |-> None]

\* read_state(): the file's record, or the default when the file is missing
\* or cannot be parsed
read_state ==
    IF file.status = "ok" THEN file.data ELSE DefaultState

\* write_state(s): the whole record replaces the file
write_state(s) == [status |-> "ok", data |-> s]

\* a variant of the reset that moves the date and keeps the count
reset_keeps_count(s) ==
    IF s.date # today_utc_str
    THEN [s EXCEPT !.date = today_utc_str]
    ELSE s

\* a variant of the reset that zeroes the count and keeps the date
reset_keeps_date(s) ==
    IF s.date # today_utc_str
    THEN [s EXCEPT !.trades_today = 0]
    ELSE s

\* a variant of the reset that starts the new day with nothing tracked
reset_drops_position(s) ==
    IF s.date # today_utc_str
    THEN [s EXCEPT !.date = today_utc_str, !.trades_today = 0, !.open_position = None]
    ELSE s

\* reset_state_if_new_day(s): the record returned
reset_state_if_new_day(s) ==
    IF s.date # today_utc_str
    THEN [s EXCEPT !.date = today_utc_str, !.trades_today = 0]
    ELSE s

\* pick_price(ticker_obj): <<price>> or None
pick_price(t) ==
    IF t.last # NoQuote /\ t.last > 0 THEN Some(t.last)
    ELSE IF t.close # NoQuote /\ t.close > 0 THEN Some(t.close)
    ELSE None

\* a variant of calc_qty that rounds the quotient up
calc_qty_rounds_up(price) ==
    LET risk_amt       == (ACCOUNT_EQUITY_DKK * RISK_PER_TRADE_BP) \div 100
        risk_per_share == price * STOP_LOSS_PM
    IN  IF risk_per_share <= 0 THEN 0
        ELSE (risk_amt * 1000 + risk_per_share - 1) \div risk_per_share

\* calc_qty(price), price in cents:
\*   floor((equity * risk) / (price * stop_loss_pct)), 0 when the divisor is <= 0
\*   risk_amt in cents is equity * bp / 100; risk_per_share in 1/1000 cent is
\*   price * STOP_LOSS_PM
calc_qty(price) ==
    LET risk_amt       == (ACCOUNT_EQUITY_DKK * RISK_PER_TRADE_BP) \div 100
        risk_per_share == price * STOP_LOSS_PM
    IN  IF risk_per_share <= 0 THEN 0
        ELSE LET qty == (risk_amt * 1000) \div risk_per_share
             IN  IF qty > 0 THEN qty ELSE 0

\* round(x / 1000) to whole cents
RoundPm(x) == (x + 500) \div 1000

tp_price(entry_ref_price) == RoundPm(entry_ref_price * (1000 + TAKE_PROFIT_PM))
sl_price(entry_ref_price) == RoundPm(entry_ref_price * (1000 - STOP_LOSS_PM))

(***************************************************************************)
(* The broker                                                              *)
(***************************************************************************)
\* status of a bracket at the broker:
\*   "working"    released, parent not filled
\*   "open"       parent filled, take-profit and stop-loss working
\*   "naked"      parent filled, both children gone without a fill
\*   "closed"     a child filled the whole remaining quantity
\*   "cancelled"  cancelled before the parent filled
LiveStatus == {"working", "open", "naked"}

BracketIds == 1 .. Len(brackets)

\* what positions() reports: the symbols held
Positions == {brackets[b].sym : b \in {k \in BracketIds : brackets[k].status \in {"open", "naked"}}}

\* what openOrders() reports: <<bracket, leg>> of every working order
OpenOrders ==
    {<<b, "parent">> : b \in {k \in BracketIds : brackets[k].status = "working"}}
    \cup {<<b, leg>> : b \in {k \in BracketIds : brackets[k].status \in {"working", "open"}},
                       leg \in {"tp", "sl"}}

Init ==
    /\ now = 0
    /\ file = [status |-> "missing", data |-> [date |-> 0, trades_today |-> 0,
                 open_position |-> None, last_close_time |-> None]]
    /\ entryLog = << >>
    /\ closeLog = << >>
    /\ brackets = << >>
    /\ placedDays = << >>
    /\ execs = << >>
    /\ pc = "idle"
    /\ state = [date |-> 0, trades_today |-> 0,
                open_position |-> None, last_close_time |-> None]
    /\ attempt = 0
    /\ idx = 0
    /\ placed = None
    /\ ibPositions = {}
    /\ ibOpenOrders = {}
    /\ ibExecs = << >>
    /\ wrote = FALSE
    /\ branch = "none"
    /\ resetDays = << >>
    /\ BLACKLIST = << >>
    /\ candidates = << >>
    /\ trades = 0
    /\ sessions = [u_open |-> FALSE, e_open |-> FALSE]
    /\ wire = << >>
    /\ calls = << >>

\* the canonical contents of main's locals when no process runs
IdleState ==
    [date |-> 0, trades_today |-> 0, open_position |-> None, last_close_time |-> None]

\* the process ends (return from main, or the process is stopped)
Exit ==
    /\ pc' = "idle"
    /\ state' = IdleState
    /\ attempt' = 0
    /\ idx' = 0
    /\ placed' = None
    /\ ibPositions' = {}
    /\ ibOpenOrders' = {}
    /\ ibExecs' = << >>
    /\ branch' = "none"
    /\ wrote' = FALSE

\* the client's event loop runs: its view catches up with the broker
Sync ==
    /\ ibPositions' = Positions
    /\ ibOpenOrders' = OpenOrders
    /\ ibExecs' = execs

(***************************************************************************)
(* check_and_log_close                                                     *)
(***************************************************************************)
\* a variant of the filter without the watermark
qualifies_no_watermark(e, open_pos, last_close_time) ==
    /\ e.side = "SLD"
    /\ e.sym = open_pos.symbol
    /\ ~(e.time <= open_pos.entry_time)

\* the filter of the loop over the executions (lines 215-226)
qualifies(e, open_pos, last_close_time) ==
    /\ e.side = "SLD"
    /\ e.sym = open_pos.symbol
    /\ ~(e.time <= open_pos.entry_time)
    /\ ~(last_close_time # None /\ e.time <= last_close_time[1])

\* a variant of the loop that keeps the first execution that qualifies
RECURSIVE best_exec_first(_, _, _, _, _)
best_exec_first(es, i, open_pos, last_close_time, best) ==
    IF i > Len(es) THEN best
    ELSE IF best = 0 /\ qualifies(es[i], open_pos, last_close_time)
         THEN best_exec_first(es, i + 1, open_pos, last_close_time, i)
         ELSE best_exec_first(es, i + 1, open_pos, last_close_time, best)

\* the loop over the executions (lines 211-230): the index of `best` in the
\* list, 0 for None; a later execution replaces best only when strictly newer
RECURSIVE best_exec(_, _, _, _, _)
best_exec(es, i, open_pos, last_close_time, best) ==
    IF i > Len(es) THEN best
    ELSE IF ~qualifies(es[i], open_pos, last_close_time)
         THEN best_exec(es, i + 1, open_pos, last_close_time, best)
         ELSE IF best = 0 \/ es[i].time > es[best].time
              THEN best_exec(es, i + 1, open_pos, last_close_time, i)
              ELSE best_exec(es, i + 1, open_pos, last_close_time, best)

\* best for the state and the executions the client holds
Best(s, es) == best_exec(es, 1, s.open_position[1], s.last_close_time, 0)

\* the row appended to the close log (lines 240-256); exec is the position of
\* the chosen execution in the broker's list (not a column of the file)
close_row(s, es, best) ==
    LET open_pos == s.open_position[1] IN
    [symbol        |-> open_pos.symbol,
     qty           |-> open_pos.qty,
     entry_price   |-> open_pos.entry_price,
     exit_price    |-> es[best].price,
     pnl           |-> (es[best].price - open_pos.entry_price) * open_pos.qty,
     exit_time_utc |-> es[best].time,
     exec          |-> best]

\* a variant of line 182 that looks at the open orders only
still_active_orders_only == ibOpenOrders # {}

\* line 182: the broker still shows a position or an open order
still_active == ibPositions # {} \/ ibOpenOrders # {}

\* a variant of lines 177-179 that writes the state back
CloseUnsetRewrites ==
    /\ pc = "reconcile"
    /\ state.open_position = None
    /\ file' = [status |-> "ok", data |-> state]
    /\ pc' = "gate"
    /\ branch' = "unset"
    /\ wrote' = TRUE
    /\ UNCHANGED <<now, entryLog, closeLog, brackets, placedDays, execs, state, attempt,
                   idx, placed, ibPositions, ibOpenOrders, ibExecs, resetDays>>
    /\ UNCHANGED loopVars
    /\ UNCHANGED harnessVars

\* lines 177-179: nothing is tracked
CloseUnset ==
    /\ pc = "reconcile"
    /\ state.open_position = None
    /\ pc' = "gate"
    /\ branch' = "unset"
    /\ wrote' = FALSE
    /\ UNCHANGED <<now, file, entryLog, closeLog, brackets, placedDays, execs, state, attempt,
                   idx, placed, ibPositions, ibOpenOrders, ibExecs, resetDays>>
    /\ UNCHANGED loopVars
    /\ UNCHANGED harnessVars

\* lines 181-183: the trade is still active
CloseActive ==
    /\ pc = "reconcile"
    /\ state.open_position # None
    /\ still_active
    /\ pc' = "gate"
    /\ branch' = "active"
    /\ wrote' = FALSE
    /\ UNCHANGED <<now, file, entryLog, closeLog, brackets, placedDays, execs, state, attempt,
                   idx, placed, ibPositions, ibOpenOrders, ibExecs, resetDays>>
    /\ UNCHANGED loopVars
    /\ UNCHANGED harnessVars

\* lines 232-238: no sell execution qualifies
CloseCleared ==
    /\ pc = "reconcile"
    /\ state.open_position # None
    /\ ~still_active
    /\ Best(state, ibExecs) = 0
    /\ state' = [state EXCEPT !.open_position = None]
    /\ file' = write_state(state')
    /\ wrote' = TRUE
    /\ pc' = "gate"
    /\ branch' = "cleared"
    /\ UNCHANGED <<now, entryLog, closeLog, brackets, placedDays, execs, attempt,
                   idx, placed, ibPositions, ibOpenOrders, ibExecs, resetDays>>
    /\ UNCHANGED loopVars
    /\ UNCHANGED harnessVars

\* lines 240-256: a sell execution qualifies, the close-log row is appended
CloseLogRow ==
    /\ pc = "reconcile"
    /\ state.open_position # None
    /\ ~still_active
    /\ Best(state, ibExecs) # 0
    /\ Len(closeLog) < MaxCloseRows
    /\ closeLog' = Append(closeLog, close_row(state, ibExecs, Best(state, ibExecs)))
    /\ wrote' = FALSE
    /\ pc' = "close_write"
    /\ branch' = "closing"
    /\ UNCHANGED <<now, file, entryLog, brackets, placedDays, execs, state, attempt,
                   idx, placed, ibPositions, ibOpenOrders, ibExecs, resetDays>>
    /\ UNCHANGED loopVars
    /\ UNCHANGED harnessVars

\* lines 258-261: the state is updated and written
CloseWrite ==
    /\ pc = "close_write"
    /\ state' = [state EXCEPT !.open_position = None,
                              !.last_close_time = Some(ibExecs[Best(state, ibExecs)].time)]
    /\ file' = write_state(state')
    /\ wrote' = TRUE
    /\ pc' = "gate"
    /\ branch' = "closed"
    /\ UNCHANGED <<now, entryLog, closeLog, brackets, placedDays, execs, attempt,
                   idx, placed, ibPositions, ibOpenOrders, ibExecs, resetDays>>
    /\ UNCHANGED loopVars
    /\ UNCHANGED harnessVars

(***************************************************************************)
(* main                                                                    *)
(***************************************************************************)
\* line 274: state = reset_state_if_new_day(read_state()); the reset writes
\* the file when it changes the record
Start ==
    /\ pc = "idle"
    /\ state' = reset_state_if_new_day(read_state)
    /\ IF read_state.date # today_utc_str
       THEN /\ file' = write_state(state')
            /\ wrote' = TRUE
            /\ resetDays' = Append(resetDays, today_utc_str)
       ELSE /\ file' = file
            /\ wrote' = FALSE
            /\ resetDays' = resetDays
    /\ pc' = "connect"
    /\ attempt' = 1
    /\ UNCHANGED <<now, entryLog, closeLog, brackets, placedDays, execs, idx, placed,
                   ibPositions, ibOpenOrders, ibExecs, branch>>
    /\ UNCHANGED loopVars
    /\ UNCHANGED harnessVars

\* lines 281-285, 298: a connect attempt succeeds; the client synchronises
ConnectOk ==
    /\ pc = "connect"
    /\ Sync
    /\ pc' = "reconcile"
    /\ wrote' = FALSE
    /\ UNCHANGED <<now, file, entryLog, closeLog, brackets, placedDays, execs, state, attempt,
                   idx, placed, branch, resetDays>>
    /\ UNCHANGED loopVars
    /\ UNCHANGED harnessVars

\* lines 286-296: a connect attempt fails; after the last one main returns
ConnectFail ==
    /\ pc = "connect"
    /\ IF attempt < CONNECT_ATTEMPTS
       THEN /\ attempt' = attempt + 1
            /\ UNCHANGED <<pc, state, idx, placed, ibPositions, ibOpenOrders, ibExecs,
                           branch, wrote>>
       ELSE Exit
    /\ UNCHANGED <<now, file, entryLog, closeLog, brackets, placedDays, execs, resetDays>>
    /\ UNCHANGED loopVars
    /\ UNCHANGED harnessVars

\* a variant of the hard gate that looks at the open orders only
hard_gate_orders_only == ibOpenOrders # {}

\* lines 304-315: the hard gate
hard_gate_stops == ibOpenOrders # {} \/ ibPositions # {}

\* lines 317-321: the daily limit
daily_limit_reached(s) == s.trades_today >= MAX_TRADES_PER_DAY

GateStop ==
    /\ pc = "gate"
    /\ hard_gate_stops \/ daily_limit_reached(state)
    /\ Exit
    /\ UNCHANGED <<now, file, entryLog, closeLog, brackets, placedDays, execs, resetDays>>
    /\ UNCHANGED loopVars
    /\ UNCHANGED harnessVars

GatePass ==
    /\ pc = "gate"
    /\ ~hard_gate_stops
    /\ ~daily_limit_reached(state)
    /\ pc' = "scan"
    /\ idx' = 1
    /\ wrote' = FALSE
    /\ UNCHANGED <<now, file, entryLog, closeLog, brackets, placedDays, execs, state, attempt,
                   placed, ibPositions, ibOpenOrders, ibExecs, branch, resetDays>>
    /\ UNCHANGED loopVars
    /\ UNCHANGED harnessVars

\* place_bracket(ib, contract, qty, entry_ref_price): the bracket the broker
\* holds once the stop-loss was submitted with transmit set
place_bracket(sym, qty, entry_ref_price) ==
    [sym    |-> sym,
     qty    |-> qty,
     ref    |-> entry_ref_price,
     tp     |-> tp_price(entry_ref_price),
     sl     |-> sl_price(entry_ref_price),
     status |-> "working",
     rem    |-> qty]

\* what place_bracket returns to main, with main's own sym and qty:
\* parent_trade (by its order id), tp_price, sl_price, parent_id
placed_locals(sym, qty, entry_ref_price, parent_id) ==
    [sym      |-> sym,
     qty      |-> qty,
     tp_price |-> tp_price(entry_ref_price),
     sl_price |-> sl_price(entry_ref_price),
     order_id |-> parent_id]

\* lines 345-351: the ticker is passed over
skips(signal, t) ==
    IF ~signal \/ pick_price(t) = None THEN TRUE
    ELSE calc_qty(pick_price(t)[1]) <= 0

\* lines 324-351: one ticker of the scan is passed over
ScanSkip ==
    /\ pc = "scan"
    /\ idx <= Len(TICKERS)
    /\ \E signal \in BOOLEAN, last \in Quotes, close \in Quotes :
          skips(signal, [last |-> last, close |-> close])
    /\ Sync
    /\ idx' = idx + 1
    /\ wrote' = FALSE
    /\ UNCHANGED <<now, file, entryLog, closeLog, brackets, placedDays, execs, pc, state,
                   attempt, placed, branch, resetDays>>
    /\ UNCHANGED loopVars
    /\ UNCHANGED harnessVars

\* lines 324-353: a ticker has a signal, a price and a quantity: the bracket
\* is placed; the parent's order id is the bracket's place in the book
ScanPlace(maxBrackets) ==
    /\ pc = "scan"
    /\ idx <= Len(TICKERS)
    /\ Len(brackets) < maxBrackets
    /\ \E signal \in BOOLEAN, last \in Quotes, close \in Quotes :
          LET t     == [last |-> last, close |-> close]
              price == pick_price(t)[1]
          IN  /\ ~skips(signal, t)
              /\ brackets' = Append(brackets,
                                    place_bracket(TICKERS[idx], calc_qty(price), price))
              /\ placed' = Some(placed_locals(TICKERS[idx], calc_qty(price), price,
                                              Len(brackets) + 1))
    /\ placedDays' = Append(placedDays, today_utc_str)
    /\ ibPositions' = Positions
    /\ ibOpenOrders' = OpenOrders
    /\ ibExecs' = execs
    /\ pc' = "wait_fill"
    /\ wrote' = FALSE
    /\ UNCHANGED <<now, file, entryLog, closeLog, execs, state, attempt, idx,
                   branch, resetDays>>
    /\ UNCHANGED loopVars
    /\ UNCHANGED harnessVars

\* lines 324, 391-392: the scan ends without a trade
ScanEnd ==
    /\ pc = "scan"
    /\ idx > Len(TICKERS)
    /\ Exit
    /\ UNCHANGED <<now, file, entryLog, closeLog, brackets, placedDays, execs, resetDays>>
    /\ UNCHANGED loopVars
    /\ UNCHANGED harnessVars

\* parent_trade.fills after the wait of line 356: the executions of the
\* parent order, as positions in the broker's list
parent_fills(order_id) ==
    {i \in 1 .. Len(execs) : execs[i].side = "BOT" /\ execs[i].oid = order_id}

\* a variant of lines 356-362 that counts the trade although no fill was seen
NoFillCounts ==
    /\ pc = "wait_fill"
    /\ parent_fills(placed[1].order_id) = {}
    /\ file' = write_state([state EXCEPT !.trades_today = state.trades_today + 1])
    /\ Exit
    /\ UNCHANGED <<now, entryLog, closeLog, brackets, placedDays, execs, resetDays>>
    /\ UNCHANGED loopVars
    /\ UNCHANGED harnessVars

\* lines 356-362: no fill within the wait: main returns
NoFill ==
    /\ pc = "wait_fill"
    /\ parent_fills(placed[1].order_id) = {}
    /\ Exit
    /\ UNCHANGED <<now, file, entryLog, closeLog, brackets, placedDays, execs, resetDays>>
    /\ UNCHANGED loopVars
    /\ UNCHANGED harnessVars

\* line 364: the price of the last fill of the parent
fill_price(order_id) ==
    execs[CHOOSE i \in parent_fills(order_id) :
              \A j \in parent_fills(order_id) : j <= i].price

\* the row appended to the entry log (lines 364-377), without the wall-clock
\* column
entry_row(p) ==
    [symbol      |-> p.sym,
     qty         |-> p.qty,
     entry_price |-> fill_price(p.order_id),
     source      |-> "fill",
     tp_price    |-> p.tp_price,
     sl_price    |-> p.sl_price,
     order_id    |-> p.order_id]

\* lines 364-377: the fill was seen, the entry-log row is appended
LogEntry ==
    /\ pc = "wait_fill"
    /\ parent_fills(placed[1].order_id) # {}
    /\ Sync
    /\ entryLog' = Append(entryLog, entry_row(placed[1]))
    /\ pc' = "record"
    /\ wrote' = FALSE
    /\ UNCHANGED <<now, file, closeLog, brackets, placedDays, execs, state, attempt, idx,
                   placed, branch, resetDays>>
    /\ UNCHANGED loopVars
    /\ UNCHANGED harnessVars

\* the open_position dict of lines 379-385; entry_price is the fill price
\* main read at line 364
open_position(p) ==
    [symbol      |-> p.sym,
     qty         |-> p.qty,
     entry_price |-> fill_price(p.order_id),
     entry_time  |-> now,
     order_id    |-> p.order_id]

\* the state written at lines 379-387
recorded(s, p) ==
    [s EXCEPT !.open_position = Some(open_position(p)),
              !.trades_today = s.trades_today + 1]

\* a variant of lines 379-389 without the break: the scan goes on
RecordOpenScansOn ==
    /\ pc = "record"
    /\ state' = recorded(state, placed[1])
    /\ file' = write_state(state')
    /\ wrote' = TRUE
    /\ pc' = "scan"
    /\ idx' = idx + 1
    /\ UNCHANGED <<now, entryLog, closeLog, brackets, placedDays, execs, attempt, placed,
                   ibPositions, ibOpenOrders, ibExecs, branch, resetDays>>
    /\ UNCHANGED loopVars
    /\ UNCHANGED harnessVars

\* lines 379-392: the position is recorded, the state written, main returns
RecordOpen ==
    /\ pc = "record"
    /\ file' = write_state(recorded(state, placed[1]))
    /\ Exit
    /\ UNCHANGED <<now, entryLog, closeLog, brackets, placedDays, execs, resetDays>>
    /\ UNCHANGED loopVars
    /\ UNCHANGED harnessVars

\* the process is stopped from outside, between two steps
Stop ==
    /\ pc # "idle"
    /\ Exit
    /\ UNCHANGED <<now, file, entryLog, closeLog, brackets, placedDays, execs, resetDays>>
    /\ UNCHANGED loopVars
    /\ UNCHANGED harnessVars

(***************************************************************************)
(* The environment: the clock, the broker, the file system                 *)
(***************************************************************************)
Tick(maxTime) ==
    /\ now < maxTime
    /\ now' = now + 1
    /\ UNCHANGED <<file, entryLog, closeLog, brackets, placedDays, execs, pc, state, attempt,
                   idx, placed, ibPositions, ibOpenOrders, ibExecs, wrote, branch, resetDays>>
    /\ UNCHANGED loopVars
    /\ UNCHANGED harnessVars

\* an execution report: what the engine reads of it, and the order it is of
execution(side, b, price) ==
    [side |-> side, sym |-> brackets[b].sym, time |-> now, price |-> price, oid |-> b]

\* a bracket that is done keeps its status only
done(status) ==
    [sym |-> "", qty |-> 0, ref |-> 0, tp |-> 0, sl |-> 0, status |-> status, rem |-> 0]

\* the broker fills the parent market order, away from the reference quote
FillParent ==
    /\ \E b \in BracketIds :
          /\ brackets[b].status = "working"
          /\ brackets' = [brackets EXCEPT ![b].status = "open"]
          /\ execs' = Append(execs, execution("BOT", b, brackets[b].ref + 10))
    /\ UNCHANGED <<now, file, entryLog, closeLog, placedDays, pc, state, attempt,
                   idx, placed, ibPositions, ibOpenOrders, ibExecs, wrote, branch, resetDays>>
    /\ UNCHANGED loopVars
    /\ UNCHANGED harnessVars

\* the broker fills a child for the whole remaining quantity: the position
\* is closed and the other child cancelled
FillChild ==
    /\ \E b \in BracketIds, leg \in {"tp", "sl"} :
          /\ brackets[b].status = "open"
          /\ brackets' = [brackets EXCEPT ![b] = done("closed")]
          /\ execs' = Append(execs, execution("SLD", b,
                 IF leg = "tp" THEN brackets[b].tp ELSE brackets[b].sl))
    /\ UNCHANGED <<now, file, entryLog, closeLog, placedDays, pc, state, attempt,
                   idx, placed, ibPositions, ibOpenOrders, ibExecs, wrote, branch, resetDays>>
    /\ UNCHANGED loopVars
    /\ UNCHANGED harnessVars

\* the bracket is cancelled before its parent fills
CancelBracket ==
    /\ \E b \in BracketIds :
          /\ brackets[b].status = "working"
          /\ brackets' = [brackets EXCEPT ![b] = done("cancelled")]
    /\ UNCHANGED <<now, file, entryLog, closeLog, placedDays, execs, pc, state, attempt,
                   idx, placed, ibPositions, ibOpenOrders, ibExecs, wrote, branch, resetDays>>
    /\ UNCHANGED loopVars
    /\ UNCHANGED harnessVars

\* both children leave the book without a fill (day orders at the close)
ExpireChildren ==
    /\ \E b \in BracketIds :
          /\ brackets[b].status = "open"
          /\ brackets' = [brackets EXCEPT ![b].status = "naked"]
    /\ UNCHANGED <<now, file, entryLog, closeLog, placedDays, execs, pc, state, attempt,
                   idx, placed, ibPositions, ibOpenOrders, ibExecs, wrote, branch, resetDays>>
    /\ UNCHANGED loopVars
    /\ UNCHANGED harnessVars

\* bot_state.json is damaged between two runs: the next read_state falls
\* back to the default
FileLost ==
    /\ pc = "idle"
    /\ file.status = "ok"
    /\ file' = [status |-> "malformed", data |-> IdleState]
    /\ UNCHANGED <<now, entryLog, closeLog, brackets, placedDays, execs, pc, state, attempt,
                   idx, placed, ibPositions, ibOpenOrders, ibExecs, wrote, branch, resetDays>>
    /\ UNCHANGED loopVars
    /\ UNCHANGED harnessVars

Next ==
    \/ Start \/ ConnectOk \/ ConnectFail
    \/ CloseUnset \/ CloseActive \/ CloseCleared \/ CloseLogRow \/ CloseWrite
    \/ GateStop \/ GatePass
    \/ ScanSkip \/ ScanPlace(MaxBrackets) \/ ScanEnd
    \/ NoFill \/ LogEntry \/ RecordOpen
    \/ Stop
    \/ Tick(MaxTime) \/ FillParent \/ FillChild \/ CancelBracket \/ ExpireChildren
    \/ FileLost

Spec == Init /\ [][Next]_vars

\* within one instant no sell execution is later than an entry time, so the
\* two steps that log a close are never enabled and are left out
NextFlat ==
    \/ Start \/ ConnectOk \/ ConnectFail
    \/ CloseUnset \/ CloseActive \/ CloseCleared
    \/ GateStop \/ GatePass
    \/ ScanSkip \/ ScanPlace(MaxBracketsFlat) \/ ScanEnd
    \/ NoFill \/ LogEntry \/ RecordOpen
    \/ Stop
    \/ FillParent \/ FillChild \/ CancelBracket \/ ExpireChildren
    \/ FileLost

SpecFlat == Init /\ [][NextFlat]_vars

NextCap ==
    \/ Start \/ ConnectOk
    \/ CloseUnset \/ CloseActive \/ CloseCleared
    \/ GateStop \/ GatePass
    \/ ScanSkip \/ ScanPlace(MaxBracketsCap) \/ ScanEnd
    \/ NoFill \/ LogEntry \/ RecordOpen
    \/ FillParent \/ FillChild

SpecCap == Init /\ [][NextCap]_vars

(***************************************************************************)
(* check_and_log_close on its own: every tracked position, watermark and   *)
(* broker report of bounded size; the broker's clock and the local clock   *)
(* are not assumed to agree, so the time stamps are unrelated              *)
(***************************************************************************)
Stamps == 0 .. MaxStamp

\* execution reports: buys and sells of the tracked symbol, sells of another
ReconExecutions ==
    {[side |-> k[1], sym |-> k[2], time |-> t, price |-> k[3], oid |-> 1] :
        k \in {<<"BOT", "SPY", 10010>>, <<"SLD", "SPY", 10120>>,
               <<"SLD", "SPY", 9930>>, <<"SLD", "QQQ", 10120>>},
        t \in Stamps}

RECURSIVE SeqsUpTo(_, _)
SeqsUpTo(S, n) ==
    IF n = 0 THEN {<< >>}
    ELSE SeqsUpTo(S, n - 1)
         \cup {Append(q, x) : q \in {r \in SeqsUpTo(S, n - 1) : Len(r) = n - 1}, x \in S}

ReconPositions ==
    {None} \cup {Some([symbol |-> "SPY", qty |-> 71, entry_price |-> 10010,
                       entry_time |-> t, order_id |-> 1]) : t \in Stamps}

ReconStates ==
    {[date |-> 0, trades_today |-> 1, open_position |-> op, last_close_time |-> wm] :
        op \in ReconPositions, wm \in {None} \cup {Some(t) : t \in Stamps}}

InitRecon ==
    /\ now = MaxStamp
    /\ state \in ReconStates
    /\ file = write_state(state)
    /\ entryLog = << >>
    /\ closeLog = << >>
    /\ brackets = << >>
    /\ placedDays = << >>
    /\ ibExecs \in SeqsUpTo(ReconExecutions, MaxExecs)
    /\ execs = ibExecs
    /\ \E report \in {<<{}, {}>>, <<{"SPY"}, {}>>, <<{}, {<<1, "tp">>}>>} :
          /\ ibPositions = report[1]
          /\ ibOpenOrders = report[2]
    /\ pc = "reconcile"
    /\ attempt = 1
    /\ idx = 0
    /\ placed = None
    /\ wrote = FALSE
    /\ branch = "none"
    /\ resetDays = << >>
    /\ BLACKLIST = << >>
    /\ candidates = << >>
    /\ trades = 0
    /\ sessions = [u_open |-> FALSE, e_open |-> FALSE]
    /\ wire = << >>
    /\ calls = << >>

\* line 301 of the next run: check_and_log_close is called again, on the
\* state the last call left and the same broker report
CallAgain ==
    /\ pc = "gate"
    /\ pc' = "reconcile"
    /\ wrote' = FALSE
    /\ UNCHANGED <<now, file, entryLog, closeLog, brackets, placedDays, execs, state,
                   attempt, idx, placed, ibPositions, ibOpenOrders, ibExecs, branch,
                   resetDays>>
    /\ UNCHANGED loopVars
    /\ UNCHANGED harnessVars

NextRecon ==
    \/ CloseUnset \/ CloseActive \/ CloseCleared \/ CloseLogRow \/ CloseWrite
    \/ CallAgain

SpecRecon == InitRecon /\ [][NextRecon]_vars

(***************************************************************************)
(* The multi-position loop engine, src/paper_trader_loop.py (LoopSpec).    *)
(* It shares the clock, the broker's book, the client's view of the        *)
(* positions, pc and idx with the engine above.  Times are minutes, scores *)
(* are in 1/100, prices and ATR values in cents.                           *)
(***************************************************************************)
\* last minute of the clock
MaxLoopTime == 60
\* brackets the broker accepts over a behaviour
MaxLoopBrackets == 2
\* what the clock advances by between two steps
ClockSteps == {30}

CAPITAL_PER_TRADE_USD == 2000
\* MAX_OPEN_POSITIONS = 35 and MAX_NEW_TRADES_PER_LOOP = 3, scaled to the
\* three symbols of the model
MAX_OPEN_POSITIONS == 2
MAX_NEW_TRADES_PER_LOOP == 2
\* MIN_SCORE = 0.65, in 1/100
MIN_SCORE == 65
\* STOP_LOSS_ATR = 1.0 and TAKE_PROFIT_ATR = 1.5, in tenths
STOP_LOSS_ATR == 10
TAKE_PROFIT_ATR == 15
\* minutes a symbol is blocked after a data-quality reason or a failed placement
BLOCK_MINUTES == 60

US_SYMBOLS == <<"AAPL", "MSFT">>

\* us_contracts, as qualified: in the order of US_SYMBOLS
us_contracts ==
    [i \in 1 .. Len(US_SYMBOLS) |->
        [symbol |-> US_SYMBOLS[i], currency |-> "USD", primaryExchange |-> "NASDAQ"]]

\* eu_contracts, as qualified: the rows of the whitelist file with status OK
eu_contracts ==
    <<[symbol |-> "SAP", currency |-> "EUR", primaryExchange |-> "IBIS"]>>

\* key = f"{sym}:{c.currency}:{primaryExchange}"
contract_key(c) == <<c.symbol, c.currency, c.primaryExchange>>

\* position_size(price): max(1, int(CAPITAL_PER_TRADE_USD / price))
position_size(price) ==
    LET n == (CAPITAL_PER_TRADE_USD * 100) \div price
    IN  IF n > 1 THEN n ELSE 1

\* a variant of has_position that never finds a position
has_position_never(symbol) == FALSE

\* has_position(ib, symbol): the client's view of the positions only
has_position(symbol) == symbol \in ibPositions

\* a variant of is_blocked that still answers True at the minute of expiry
is_blocked_at_expiry(key) ==
    now <= (IF key \in DOMAIN BLACKLIST THEN BLACKLIST[key] ELSE 0)

\* is_blocked(key): time.time() < BLACKLIST.get(key, 0)
is_blocked(key) ==
    now < (IF key \in DOMAIN BLACKLIST THEN BLACKLIST[key] ELSE 0)

\* a variant of block that leaves the dict as it is
block_not(key, minutes) == BLACKLIST

\* a variant of block that keeps the later of the old and the new expiry
block_keeps_longer(key, minutes) ==
    [k \in (DOMAIN BLACKLIST) \cup {key} |->
        IF k = key
        THEN IF key \in DOMAIN BLACKLIST /\ BLACKLIST[key] > now + minutes
             THEN BLACKLIST[key] ELSE now + minutes
        ELSE BLACKLIST[k]]

\* block(key, minutes, reason): the dict after the assignment
block(key, minutes) ==
    [k \in (DOMAIN BLACKLIST) \cup {key} |->
        IF k = key THEN now + minutes ELSE BLACKLIST[k]]

\* the same assignment on the dict a call of block earlier in the step left
block_after(dict, key, minutes) ==
    [k \in (DOMAIN dict) \cup {key} |->
        IF k = key THEN now + minutes ELSE dict[k]]

\* the codes on_error blocks on, and the minutes it blocks for (line 190)
ERROR_CODES == {200, 162, 10089, 354}
ERROR_BLOCK_MINUTES == 180

\* on_error(reqId, errorCode, errorString, contract), lines 184-190: the dict
\* after the handler ran; the key is blocked when symbol, currency and
\* primaryExchange are all set and the code is one of the four
on_error(contract, errorCode) ==
    IF /\ contract.symbol # "" /\ contract.currency # ""
       /\ contract.primaryExchange # ""
       /\ errorCode \in ERROR_CODES
    THEN block(contract_key(contract), ERROR_BLOCK_MINUTES)
    ELSE BLACKLIST

\* round(x / 10) to whole cents, halves to the even cent
RoundTenths(x) ==
    LET q == x \div 10
        r == x % 10
    IN  IF r < 5 THEN q
        ELSE IF r > 5 THEN q + 1
        ELSE IF q % 2 = 0 THEN q ELSE q + 1

\* tp and sl of place_bracket(ib, contract, qty, entry_price, atr_val)
loop_tp(entry_price, atr_val) == RoundTenths(entry_price * 10 + TAKE_PROFIT_ATR * atr_val)
loop_sl(entry_price, atr_val) == RoundTenths(entry_price * 10 - STOP_LOSS_ATR * atr_val)

\* the bracket the broker holds once the three orders were placed
loop_bracket(sym, qty, entry_price, atr_val, status) ==
    [sym    |-> sym,
     qty    |-> qty,
     ref    |-> entry_price,
     tp     |-> loop_tp(entry_price, atr_val),
     sl     |-> loop_sl(entry_price, atr_val),
     status |-> status,
     rem    |-> qty]

\* what score_symbol may return: (score, reason, price, a); error is the code
\* of the error event the broker sent for the request, 0 without one
ScoreOutcomes ==
    {[score |-> 90, reason |-> "ok", price |-> 10000, a |-> 150, error |-> 0],
     [score |-> 70, reason |-> "ok", price |-> 10000, a |-> 150, error |-> 0],
     [score |-> 50, reason |-> "ok", price |-> 10000, a |-> 150, error |-> 0],
     [score |-> 0, reason |-> "not_enough_bars", price |-> 0, a |-> 0, error |-> 0],
     [score |-> 0, reason |-> "price_out_of_range", price |-> 300, a |-> 0, error |-> 0]}

\* a variant of the reasons that block: the price reason among them
DataReasonsAndPrice ==
    {"not_enough_bars", "atr_missing", "sma_missing", "rsi_missing", "price_out_of_range"}

\* the reasons that block the symbol
DataReasons == {"not_enough_bars", "atr_missing", "sma_missing", "rsi_missing"}

\* candidates.sort(key=score, reverse=True): stable, equal scores keep their order
RECURSIVE insert_desc(_, _)
insert_desc(x, s) ==
    IF s = << >> THEN <<x>>
    ELSE IF s[Len(s)].score >= x.score THEN Append(s, x)
         ELSE Append(insert_desc(x, SubSeq(s, 1, Len(s) - 1)), s[Len(s)])

\* a variant of the sort that leaves the list as it is
sort_not(s) == s

RECURSIVE sort_desc(_)
sort_desc(s) ==
    IF s = << >> THEN << >>
    ELSE insert_desc(s[Len(s)], sort_desc(SubSeq(s, 1, Len(s) - 1)))

LoopInit ==
    /\ now = 0
    /\ file = [status |-> "missing", data |-> IdleState]
    /\ entryLog = << >>
    /\ closeLog = << >>
    /\ brackets = << >>
    /\ placedDays = << >>
    /\ execs = << >>
    /\ pc = "loop_gate"
    /\ state = IdleState
    /\ attempt = 0
    /\ idx = 0
    /\ placed = None
    /\ ibPositions = {}
    /\ ibOpenOrders = {}
    /\ ibExecs = << >>
    /\ wrote = FALSE
    /\ branch = "none"
    /\ resetDays = << >>
    /\ BLACKLIST = << >>
    /\ candidates = << >>
    /\ trades = 0
    /\ sessions = [u_open |-> FALSE, e_open |-> FALSE]
    /\ wire = << >>
    /\ calls = << >>

\* a variant of the end of a cycle that goes to the next cycle without a sleep
LoopSleepNot ==
    /\ pc' = "loop_gate"
    /\ idx' = 0
    /\ candidates' = << >>
    /\ trades' = 0

\* time.sleep(...); continue: the locals of the cycle are dropped
LoopSleep ==
    /\ pc' = "loop_sleep"
    /\ idx' = 0
    /\ candidates' = << >>
    /\ trades' = 0

\* lines 323-340: the session gate and the position limit
LoopGate ==
    /\ pc = "loop_gate"
    /\ \E u_open \in BOOLEAN, e_open \in BOOLEAN :
          /\ sessions' = [u_open |-> u_open, e_open |-> e_open]
          /\ IF ~u_open /\ ~e_open
             THEN LoopSleep
             ELSE IF Cardinality(ibPositions) >= MAX_OPEN_POSITIONS
                  THEN LoopSleep
                  ELSE /\ pc' = IF u_open THEN "score_us" ELSE "score_eu"
                       /\ idx' = 1
                       /\ candidates' = << >>
                       /\ trades' = 0
    /\ UNCHANGED <<now, brackets, execs, ibPositions, BLACKLIST>>
    /\ UNCHANGED traderVars
    /\ UNCHANGED harnessVars

\* lines 344-357 and 362-374: one symbol of a scoring loop.  An error event
\* for the request runs on_error inside score_symbol, before line 351
\* returns; with log "requests" the request goes on wire and the error on
\* calls, with log "replies" the request goes on wire with the reason and
\* the score that score_symbol returned for it, with log "off" neither
score_step(region, contracts, next_pc, outcomes, log) ==
    LET c   == contracts[idx]
        key == contract_key(c)
    IN  /\ idx <= Len(contracts)
        /\ IF has_position(c.symbol) \/ is_blocked(key)
           THEN UNCHANGED <<ibPositions, BLACKLIST, candidates, wire, calls>>
           ELSE \E o \in outcomes :
                   LET after_error == IF o.error # 0 THEN on_error(c, o.error)
                                      ELSE BLACKLIST
                   IN  /\ ibPositions' = Positions
                       /\ wire' = IF log = "requests"
                                  THEN Append(wire, [req |-> "reqHistoricalData",
                                                     sym |-> c.symbol, key |-> key,
                                                     at |-> now])
                                  ELSE IF log = "replies"
                                  THEN Append(wire, [req |-> "reqHistoricalData",
                                                     sym |-> c.symbol, key |-> key,
                                                     at |-> now, reason |-> o.reason,
                                                     score |-> o.score])
                                  ELSE wire
                       /\ calls' = IF log # "off" /\ o.error # 0
                                   THEN Append(calls, [key |-> key, code |-> o.error,
                                                       at |-> now])
                                   ELSE calls
                       /\ IF o.reason # "ok"
                          THEN /\ BLACKLIST' = IF o.reason \in DataReasons
                                               THEN block_after(after_error, key,
                                                                BLOCK_MINUTES)
                                               ELSE after_error
                               /\ candidates' = candidates
                          ELSE /\ BLACKLIST' = after_error
                               /\ candidates' =
                                     IF o.score >= MIN_SCORE
                                     THEN Append(candidates,
                                                 [region |-> region, score |-> o.score,
                                                  sym |-> c.symbol, c |-> c,
                                                  price |-> o.price, a |-> o.a])
                                     ELSE candidates
        /\ IF idx < Len(contracts)
           THEN idx' = idx + 1 /\ pc' = pc
           ELSE idx' = 1 /\ pc' = next_pc

\* lines 342-357: US scoring
ScoreUS ==
    /\ pc = "score_us"
    /\ score_step("US", us_contracts, IF sessions.e_open THEN "score_eu" ELSE "loop_rank",
                  ScoreOutcomes, "off")
    /\ UNCHANGED <<now, brackets, execs, trades, sessions>>
    /\ UNCHANGED traderVars

\* lines 360-374: EU scoring
ScoreEU ==
    /\ pc = "score_eu"
    /\ score_step("EU", eu_contracts, "loop_rank", ScoreOutcomes, "off")
    /\ UNCHANGED <<now, brackets, execs, trades, sessions>>
    /\ UNCHANGED traderVars

\* lines 376-383: the candidates are ranked; without one the cycle ends
LoopRank ==
    /\ pc = "loop_rank"
    /\ IF candidates = << >>
       THEN LoopSleep
       ELSE /\ candidates' = sort_desc(candidates)
            /\ trades' = 0
            /\ idx' = 1
            /\ pc' = "dispatch"
    /\ UNCHANGED <<now, brackets, execs, ibPositions, BLACKLIST, sessions>>
    /\ UNCHANGED traderVars
    /\ UNCHANGED harnessVars

\* lines 384-387, 403: the dispatch loop ends or breaks
dispatch_ends ==
    \/ idx > Len(candidates)
    \/ trades >= MAX_NEW_TRADES_PER_LOOP
    \/ Cardinality(ibPositions) >= MAX_OPEN_POSITIONS

DispatchStop ==
    /\ pc = "dispatch"
    /\ dispatch_ends
    /\ LoopSleep
    /\ UNCHANGED <<now, brackets, execs, ibPositions, BLACKLIST, sessions>>
    /\ UNCHANGED traderVars
    /\ UNCHANGED harnessVars

\* lines 388-389: the candidate is held already
DispatchSkip ==
    /\ pc = "dispatch"
    /\ ~dispatch_ends
    /\ has_position(candidates[idx].sym)
    /\ idx' = idx + 1
    /\ UNCHANGED <<now, brackets, execs, pc, ibPositions, BLACKLIST, candidates, trades,
                   sessions>>
    /\ UNCHANGED traderVars
    /\ UNCHANGED harnessVars

\* lines 391-401: the bracket is placed; place_bracket returns False when the
\* stop is not positive or a placeOrder raises, with the parent held back at
\* the broker when the raise came after it
DispatchPlace(maxBrackets) ==
    /\ pc = "dispatch"
    /\ ~dispatch_ends
    /\ ~has_position(candidates[idx].sym)
    /\ LET x   == candidates[idx]
           qty == position_size(x.price)
       IN  \E outcome \in {"ok", "raised", "raised_after_parent"} :
              /\ outcome = "ok" => loop_sl(x.price, x.a) > 0
              /\ outcome # "raised" => Len(brackets) < maxBrackets
              /\ brackets' =
                    IF outcome = "ok"
                    THEN Append(brackets, loop_bracket(x.sym, qty, x.price, x.a, "working"))
                    ELSE IF outcome = "raised_after_parent"
                    THEN Append(brackets, loop_bracket(x.sym, qty, x.price, x.a, "held"))
                    ELSE brackets
              /\ trades' = IF outcome = "ok" THEN trades + 1 ELSE trades
              /\ BLACKLIST' = IF outcome = "ok" THEN BLACKLIST
                              ELSE block(contract_key(x.c), BLOCK_MINUTES)
    /\ ibPositions' = Positions
    /\ idx' = idx + 1
    /\ UNCHANGED <<now, execs, pc, candidates, sessions>>
    /\ UNCHANGED traderVars
    /\ UNCHANGED harnessVars

\* the sleep at the end of a cycle is over
LoopWake ==
    /\ pc = "loop_sleep"
    /\ pc' = "loop_gate"
    /\ UNCHANGED <<now, brackets, execs, idx, ibPositions>>
    /\ UNCHANGED loopVars
    /\ UNCHANGED harnessVars
    /\ UNCHANGED traderVars

LoopTick ==
    /\ \E d \in ClockSteps :
          /\ now + d <= MaxLoopTime
          /\ now' = now + d
    /\ UNCHANGED <<brackets, execs, pc, idx, ibPositions>>
    /\ UNCHANGED loopVars
    /\ UNCHANGED harnessVars
    /\ UNCHANGED traderVars

\* the broker fills a parent market order
BrokerFills ==
    /\ \E b \in BracketIds :
          /\ brackets[b].status = "working"
          /\ brackets' = [brackets EXCEPT ![b].status = "open"]
    /\ UNCHANGED <<now, execs, pc, idx, ibPositions>>
    /\ UNCHANGED loopVars
    /\ UNCHANGED harnessVars
    /\ UNCHANGED traderVars

\* the broker fills a child: the position is closed
BrokerCloses ==
    /\ \E b \in BracketIds :
          /\ brackets[b].status = "open"
          /\ brackets' = [brackets EXCEPT ![b] = done("closed")]
    /\ UNCHANGED <<now, execs, pc, idx, ibPositions>>
    /\ UNCHANGED loopVars
    /\ UNCHANGED harnessVars
    /\ UNCHANGED traderVars

LoopNext ==
    \/ LoopGate \/ ScoreUS \/ ScoreEU \/ LoopRank
    \/ DispatchStop \/ DispatchSkip \/ DispatchPlace(MaxLoopBrackets)
    \/ LoopWake \/ LoopTick \/ BrokerFills \/ BrokerCloses

LoopSpec == LoopInit /\ [][LoopNext]_vars

(***************************************************************************)
(* The loop engine within one minute of the clock, with room at the broker *)
(* for one bracket per symbol of the universe (SpecPositions).             *)
(***************************************************************************)
\* brackets the broker accepts over a behaviour
MaxPositionBrackets == 3

NextPositions ==
    \/ LoopGate \/ ScoreUS \/ ScoreEU \/ LoopRank
    \/ DispatchStop \/ DispatchSkip \/ DispatchPlace(MaxPositionBrackets)
    \/ LoopWake \/ BrokerFills

SpecPositions == LoopInit /\ [][NextPositions]_vars

(***************************************************************************)
(* The cycles of the loop engine with the error handler (SpecCycle): one   *)
(* cycle per reading of the clock.  wire holds the historical-data         *)
(* requests score_symbol sent in the cycle, calls the error events         *)
(* on_error blocked on.                                                    *)
(***************************************************************************)
\* last minute a cycle starts at
MaxCycleTime == 60
\* minutes between two cycles of the model
CycleMinutes == 60
\* error events on_error handles over a behaviour
MaxErrors == 1

\* what score_symbol may return in a cycle: the scores above and a higher
\* one, and no bars after the broker answered the request with error 162
CycleOutcomes ==
    {o \in ScoreOutcomes : o.reason = "ok"}
    \cup {[score |-> 95, reason |-> "ok", price |-> 10000, a |-> 150, error |-> 0],
          [score |-> 0, reason |-> "not_enough_bars", price |-> 0, a |-> 0,
           error |-> 162]}

\* the codes of the error events that arrive while orders are placed: no
\* security definition (200) and order rejected (201)
OrderErrors == {200, 201}

\* lines 342-357 with the requests and the error events on record
CycleScoreUS ==
    /\ pc = "score_us"
    /\ score_step("US", us_contracts, IF sessions.e_open THEN "score_eu" ELSE "loop_rank",
                  CycleOutcomes, "requests")
    /\ UNCHANGED <<now, brackets, execs, trades, sessions>>
    /\ UNCHANGED traderVars

\* lines 360-374 with the requests and the error events on record
CycleScoreEU ==
    /\ pc = "score_eu"
    /\ score_step("EU", eu_contracts, "loop_rank", CycleOutcomes, "requests")
    /\ UNCHANGED <<now, brackets, execs, trades, sessions>>
    /\ UNCHANGED traderVars

\* ib.errorEvent fires during the ib.sleep of line 401 for the contract of
\* the candidate just handled: on_error runs
ErrorEvent ==
    /\ pc = "dispatch"
    /\ idx > 1
    /\ Len(calls) < MaxErrors
    /\ \E code \in OrderErrors :
          LET c == candidates[idx - 1].c
          IN  /\ BLACKLIST' = on_error(c, code)
              /\ calls' = IF BLACKLIST' # BLACKLIST \/ code \in ERROR_CODES
                          THEN Append(calls, [key |-> contract_key(c), code |-> code,
                                              at |-> now])
                          ELSE calls
    /\ UNCHANGED <<now, brackets, execs, pc, idx, ibPositions, candidates, trades,
                   sessions, wire>>
    /\ UNCHANGED traderVars

\* line 403: time.sleep, then the next cycle
CycleWake ==
    /\ pc = "loop_sleep"
    /\ now + CycleMinutes <= MaxCycleTime
    /\ now' = now + CycleMinutes
    /\ pc' = "loop_gate"
    /\ wire' = << >>
    /\ UNCHANGED <<brackets, execs, idx, ibPositions, calls>>
    /\ UNCHANGED loopVars
    /\ UNCHANGED traderVars

\* the broker fills a parent or a child while the engine sleeps; the
\* client's view follows at the next request
SleepFills ==
    /\ pc = "loop_sleep"
    /\ BrokerFills

SleepCloses ==
    /\ pc = "loop_sleep"
    /\ BrokerCloses

NextCycle ==
    \/ LoopGate \/ CycleScoreUS \/ CycleScoreEU \/ LoopRank
    \/ DispatchStop \/ DispatchSkip \/ DispatchPlace(MaxLoopBrackets) \/ ErrorEvent
    \/ CycleWake \/ SleepFills \/ SleepCloses

SpecCycle == LoopInit /\ [][NextCycle]_vars

(***************************************************************************)
(* The loop engine as a process that keeps taking its steps (SpecLive):    *)
(* every statement of main returns, time.sleep included, so a step of the  *)
(* engine that can be taken is taken; the broker acts when it likes.       *)
(***************************************************************************)
\* brackets the broker accepts over a behaviour
MaxLiveBrackets == 1

\* the steps of main
LoopSteps ==
    \/ LoopGate \/ ScoreUS \/ ScoreEU \/ LoopRank
    \/ DispatchStop \/ DispatchSkip \/ DispatchPlace(MaxLiveBrackets)
    \/ LoopWake

NextLive ==
    \/ LoopGate \/ ScoreUS \/ ScoreEU \/ LoopRank
    \/ DispatchStop \/ DispatchSkip \/ DispatchPlace(MaxLiveBrackets)
    \/ LoopWake \/ BrokerFills \/ BrokerCloses

SpecLive == LoopInit /\ [][NextLive]_vars /\ WF_vars(LoopSteps)

(***************************************************************************)
(* The loop engine with every reason score_symbol returns (SpecSuppress):  *)
(* one cycle per reading of the clock, no error events, wire holding the   *)
(* requests of all cycles.                                                 *)
(***************************************************************************)
\* minutes between two cycles, and the last reading of the clock
SuppressMinutes == 30
MaxSuppressTime == 30
\* brackets the broker accepts over a behaviour
MaxSuppressBrackets == 1

\* what score_symbol may return: a score above and one below MIN_SCORE, and
\* each of the six reasons of lines 203-229
SuppressOutcomes ==
    {[score |-> 90, reason |-> "ok", price |-> 10000, a |-> 150, error |-> 0],
     [score |-> 50, reason |-> "ok", price |-> 10000, a |-> 150, error |-> 0],
     [score |-> 0, reason |-> "not_enough_bars", price |-> 0, a |-> 0, error |-> 0],
     [score |-> 0, reason |-> "price_out_of_range", price |-> 300, a |-> 0, error |-> 0],
     [score |-> 0, reason |-> "atr_missing", price |-> 10000, a |-> 0, error |-> 0],
     [score |-> 0, reason |-> "atr_pct_out_of_range", price |-> 10000, a |-> 1000,
      error |-> 0],
     [score |-> 0, reason |-> "sma_missing", price |-> 10000, a |-> 150, error |-> 0],
     [score |-> 0, reason |-> "rsi_missing", price |-> 10000, a |-> 150, error |-> 0]}

\* lines 342-357 with the requests and what they returned on record
SuppressScoreUS ==
    /\ pc = "score_us"
    /\ score_step("US", us_contracts, IF sessions.e_open THEN "score_eu" ELSE "loop_rank",
                  SuppressOutcomes, "replies")
    /\ UNCHANGED <<now, brackets, execs, trades, sessions>>
    /\ UNCHANGED traderVars

\* lines 360-374 with the requests and what they returned on record
SuppressScoreEU ==
    /\ pc = "score_eu"
    /\ score_step("EU", eu_contracts, "loop_rank", SuppressOutcomes, "replies")
    /\ UNCHANGED <<now, brackets, execs, trades, sessions>>
    /\ UNCHANGED traderVars

\* line 403: time.sleep, then the next cycle
SuppressWake ==
    /\ pc = "loop_sleep"
    /\ now + SuppressMinutes <= MaxSuppressTime
    /\ now' = now + SuppressMinutes
    /\ pc' = "loop_gate"
    /\ UNCHANGED <<brackets, execs, idx, ibPositions>>
    /\ UNCHANGED loopVars
    /\ UNCHANGED harnessVars
    /\ UNCHANGED traderVars

NextSuppress ==
    \/ LoopGate \/ SuppressScoreUS \/ SuppressScoreEU \/ LoopRank
    \/ DispatchStop \/ DispatchSkip \/ DispatchPlace(MaxSuppressBrackets)
    \/ SuppressWake \/ SleepFills \/ SleepCloses

SpecSuppress == LoopInit /\ [][NextSuppress]_vars

(***************************************************************************)
(* place_bracket of both engines, one placeOrder at a time (SpecOrders).   *)
(* wire holds the orders in the order placeOrder received them; an order   *)
(* is [call, orderId, kind, action, qty, price, transmit, parentId,        *)
(* ocaGroup, ocaType], with parentId 0 and ocaGroup None when not set.     *)
(***************************************************************************)
\* calls of place_bracket over a behaviour
MaxCalls == 2

\* the order id placeOrder assigns: the client's next request id
NextOrderId == IF wire = << >> THEN 1 ELSE wire[Len(wire)].orderId + 1

\* the call in progress
ThisCall == calls[Len(calls)]

\* the order id of the parent of the call in progress: the first order of the call
ParentOrderId ==
    wire[CHOOSE i \in 1 .. Len(wire) :
            /\ wire[i].call = Len(calls)
            /\ \A j \in 1 .. Len(wire) : wire[j].call = Len(calls) => i <= j].orderId

\* a variant of the parent of the loop engine that transmits at once
loop_parent_transmits(qty) ==
    [kind |-> "MKT", action |-> "BUY", qty |-> qty, price |-> 0, transmit |-> TRUE,
     parentId |-> 0, ocaGroup |-> None, ocaType |-> 0]

\* paper_trader.place_bracket, lines 140-141: the parent
single_parent(qty) ==
    [kind |-> "MKT", action |-> "BUY", qty |-> qty, price |-> 0, transmit |-> FALSE,
     parentId |-> 0, ocaGroup |-> None, ocaType |-> 0]

\* paper_trader.place_bracket, lines 147-149, 155-157: the take-profit
single_take_profit(qty, entry_ref_price, parent_id) ==
    [kind |-> "LMT", action |-> "SELL", qty |-> qty, price |-> tp_price(entry_ref_price),
     transmit |-> FALSE, parentId |-> parent_id,
     ocaGroup |-> Some(<<"OCA", parent_id>>), ocaType |-> 1]

\* paper_trader.place_bracket, lines 151-153, 155-159: the stop-loss
single_stop_loss(qty, entry_ref_price, parent_id) ==
    [kind |-> "STP", action |-> "SELL", qty |-> qty, price |-> sl_price(entry_ref_price),
     transmit |-> TRUE, parentId |-> parent_id,
     ocaGroup |-> Some(<<"OCA", parent_id>>), ocaType |-> 1]

\* paper_trader_loop.place_bracket, lines 260, 264: the parent
loop_parent(qty) ==
    [kind |-> "MKT", action |-> "BUY", qty |-> qty, price |-> 0, transmit |-> FALSE,
     parentId |-> 0, ocaGroup |-> None, ocaType |-> 0]

\* paper_trader_loop.place_bracket, lines 261, 265, 273: the take-profit
loop_take_profit(qty, entry_price, atr_val, parent_id) ==
    [kind |-> "LMT", action |-> "SELL", qty |-> qty, price |-> loop_tp(entry_price, atr_val),
     transmit |-> FALSE, parentId |-> parent_id, ocaGroup |-> None, ocaType |-> 0]

\* paper_trader_loop.place_bracket, lines 262, 266, 274: the stop-loss
loop_stop_loss(qty, entry_price, atr_val, parent_id) ==
    [kind |-> "STP", action |-> "SELL", qty |-> qty, price |-> loop_sl(entry_price, atr_val),
     transmit |-> TRUE, parentId |-> parent_id, ocaGroup |-> None, ocaType |-> 0]

\* ib.placeOrder(contract, order): the order goes on the wire under the next id
placeOrder(order, order_id) ==
    Append(wire, [call     |-> Len(calls),
                  orderId  |-> order_id,
                  kind     |-> order.kind,
                  action   |-> order.action,
                  qty      |-> order.qty,
                  price    |-> order.price,
                  transmit |-> order.transmit,
                  parentId |-> order.parentId,
                  ocaGroup |-> order.ocaGroup,
                  ocaType  |-> order.ocaType])

\* the arguments place_bracket is called with: main's (contract, qty, price)
\* of the single engine, main's (contract, qty, price, a) of the loop engine
BracketCalls ==
    {[engine |-> "single", sym |-> TICKERS[i], qty |-> calc_qty(10000),
      price |-> 10000, atr_val |-> 0, ret |-> "running"] : i \in 1 .. Len(TICKERS)}
    \cup {[engine |-> "loop", sym |-> eu_contracts[1].symbol, qty |-> position_size(10000),
           price |-> 10000, atr_val |-> a, ret |-> "running"] : a \in {150, 10000}}

InitOrders ==
    /\ now = 0
    /\ file = [status |-> "missing", data |-> IdleState]
    /\ entryLog = << >>
    /\ closeLog = << >>
    /\ brackets = << >>
    /\ placedDays = << >>
    /\ execs = << >>
    /\ pc = "pb_idle"
    /\ state = IdleState
    /\ attempt = 0
    /\ idx = 0
    /\ placed = None
    /\ ibPositions = {}
    /\ ibOpenOrders = {}
    /\ ibExecs = << >>
    /\ wrote = FALSE
    /\ branch = "none"
    /\ resetDays = << >>
    /\ BLACKLIST = << >>
    /\ candidates = << >>
    /\ trades = 0
    /\ sessions = [u_open |-> FALSE, e_open |-> FALSE]
    /\ wire = << >>
    /\ calls = << >>

\* what no step of place_bracket touches
bracketFrame ==
    <<now, file, entryLog, closeLog, brackets, placedDays, execs, state, attempt, idx,
      placed, ibPositions, ibOpenOrders, ibExecs, wrote, branch, resetDays,
      BLACKLIST, candidates, trades, sessions>>

\* place_bracket is called; the loop engine returns False at once when the
\* stop is not positive (lines 255-258)
CallBracket ==
    /\ pc = "pb_idle"
    /\ Len(calls) < MaxCalls
    /\ \E call \in BracketCalls :
          IF call.engine = "loop" /\ loop_sl(call.price, call.atr_val) <= 0
          THEN /\ calls' = Append(calls, [call EXCEPT !.ret = "false"])
               /\ pc' = "pb_idle"
          ELSE /\ calls' = Append(calls, call)
               /\ pc' = "pb_parent"
    /\ UNCHANGED wire
    /\ UNCHANGED bracketFrame

\* lines 140-145 (single), 268-273 (loop): the parent is placed; other
\* requests may have taken request ids since the last order
PlaceParent ==
    /\ pc = "pb_parent"
    /\ \E order_id \in {NextOrderId, NextOrderId + 1} :
          wire' = placeOrder(IF ThisCall.engine = "single"
                             THEN single_parent(ThisCall.qty)
                             ELSE loop_parent(ThisCall.qty), order_id)
    /\ pc' = "pb_tp"
    /\ UNCHANGED calls
    /\ UNCHANGED bracketFrame

\* line 161 (single), 275 (loop): the take-profit is placed
PlaceTakeProfit ==
    /\ pc = "pb_tp"
    /\ wire' = placeOrder(IF ThisCall.engine = "single"
                          THEN single_take_profit(ThisCall.qty, ThisCall.price,
                                                  ParentOrderId)
                          ELSE loop_take_profit(ThisCall.qty, ThisCall.price,
                                                ThisCall.atr_val, ParentOrderId),
                          NextOrderId)
    /\ pc' = "pb_sl"
    /\ UNCHANGED calls
    /\ UNCHANGED bracketFrame

\* lines 162-164 (single), 276-277 (loop): the stop-loss is placed and the
\* call returns
PlaceStopLoss ==
    /\ pc = "pb_sl"
    /\ wire' = placeOrder(IF ThisCall.engine = "single"
                          THEN single_stop_loss(ThisCall.qty, ThisCall.price,
                                                ParentOrderId)
                          ELSE loop_stop_loss(ThisCall.qty, ThisCall.price,
                                              ThisCall.atr_val, ParentOrderId),
                          NextOrderId)
    /\ calls' = [calls EXCEPT ![Len(calls)].ret = "placed"]
    /\ pc' = "pb_idle"
    /\ UNCHANGED bracketFrame

\* a placeOrder raises: the loop engine returns False (lines 278-280), the
\* single engine lets the exception end main
PlaceRaises ==
    /\ pc \in {"pb_parent", "pb_tp", "pb_sl"}
    /\ calls' = [calls EXCEPT ![Len(calls)].ret =
                    IF ThisCall.engine = "loop" THEN "false" ELSE "raised"]
    /\ pc' = "pb_idle"
    /\ UNCHANGED wire
    /\ UNCHANGED bracketFrame

NextOrders ==
    \/ CallBracket \/ PlaceParent \/ PlaceTakeProfit \/ PlaceStopLoss \/ PlaceRaises

SpecOrders == InitOrders /\ [][NextOrders]_vars

(***************************************************************************)
(* The sizing functions on their own (SpecSizing): calc_qty of the single  *)
(* engine, position_size of the loop engine and of paper_trader_us, each   *)
(* applied to a price in cents; calls holds the last call and its result.  *)
(***************************************************************************)
\* every price from -2 cents up to this one is tried
MaxSmallPrice == 60

\* paper_trader_us.CAPITAL_PER_TRADE
CAPITAL_PER_TRADE == 50000

\* the prices tried: the small ones, the quote of the example (100.00), and
\* the prices around the points where a quotient reaches 1 and 0
SizingPrices ==
    (-2 .. MaxSmallPrice)
    \cup {10000, 100000, 199999, 200000, 200001, 250000, 357142, 357143,
          714285, 714286, 2500000, 4999999, 5000000, 5000001}

\* paper_trader_us.position_size(price): max(1, int(CAPITAL_PER_TRADE / price))
us_position_size(price) ==
    LET qty == (CAPITAL_PER_TRADE * 100) \div price
    IN  IF qty > 1 THEN qty ELSE 1

\* every variable of the engines at rest
AtRest ==
    /\ now = 0
    /\ file = [status |-> "missing", data |-> IdleState]
    /\ entryLog = << >>
    /\ closeLog = << >>
    /\ brackets = << >>
    /\ placedDays = << >>
    /\ execs = << >>
    /\ state = IdleState
    /\ attempt = 0
    /\ idx = 0
    /\ placed = None
    /\ ibPositions = {}
    /\ ibOpenOrders = {}
    /\ ibExecs = << >>
    /\ wrote = FALSE
    /\ branch = "none"
    /\ resetDays = << >>
    /\ candidates = << >>
    /\ trades = 0
    /\ sessions = [u_open |-> FALSE, e_open |-> FALSE]
    /\ wire = << >>

InitSizing ==
    /\ AtRest
    /\ BLACKLIST = << >>
    /\ pc = "sizing"
    /\ calls = << >>

sizingFrame ==
    <<now, file, entryLog, closeLog, brackets, placedDays, execs, pc, state, attempt,
      idx, placed, ibPositions, ibOpenOrders, ibExecs, wrote, branch, resetDays,
      BLACKLIST, candidates, trades, sessions, wire>>

\* main, line 348: qty = calc_qty(price)
CalcQty ==
    /\ pc = "sizing"
    /\ \E price \in SizingPrices :
          calls' = <<[fn |-> "calc_qty", price |-> price, ret |-> calc_qty(price)]>>
    /\ UNCHANGED sizingFrame

\* paper_trader_loop.main, line 392: qty = position_size(float(price))
PositionSize ==
    /\ pc = "sizing"
    /\ \E price \in {p \in SizingPrices : p > 0} :
          calls' = <<[fn |-> "position_size", price |-> price,
                      ret |-> position_size(price)]>>
    /\ UNCHANGED sizingFrame

\* paper_trader_us.main: qty = position_size(price)
UsPositionSize ==
    /\ pc = "sizing"
    /\ \E price \in {p \in SizingPrices : p > 0} :
          calls' = <<[fn |-> "us_position_size", price |-> price,
                      ret |-> us_position_size(price)]>>
    /\ UNCHANGED sizingFrame

NextSizing == CalcQty \/ PositionSize \/ UsPositionSize

SpecSizing == InitSizing /\ [][NextSizing]_vars

(***************************************************************************)
(* The blacklist on its own (SpecBlock): block is called on the keys of    *)
(* the contracts while the clock moves; calls holds every call of block as *)
(* [key, minutes, at].  Nothing ever removes an entry of BLACKLIST.        *)
(***************************************************************************)
\* calls of block over a behaviour
MaxBlocks == 2

\* the minutes the clock is read at: around the start, and around the
\* expiry of a block of 60 and of 180 minutes set in the first minutes
BlockTimes == {0, 1, 2, 59, 60, 61, 62, 179, 180, 181, 182}

\* the minutes block is called with: 60 in main (lines 353, 370, 399), 180 in
\* on_error (line 190)
BlockMinutes == {60, 180}

\* the keys of the qualified contracts
BlockKeys ==
    {contract_key(us_contracts[i]) : i \in 1 .. Len(us_contracts)}
    \cup {contract_key(eu_contracts[i]) : i \in 1 .. Len(eu_contracts)}

InitBlock ==
    /\ AtRest
    /\ BLACKLIST = << >>
    /\ pc = "blacklist"
    /\ calls = << >>

blockFrame ==
    <<file, entryLog, closeLog, brackets, placedDays, execs, pc, state, attempt,
      idx, placed, ibPositions, ibOpenOrders, ibExecs, wrote, branch, resetDays,
      candidates, trades, sessions, wire>>

\* block(key, minutes, reason) is called
Block ==
    /\ pc = "blacklist"
    /\ Len(calls) < MaxBlocks
    /\ \E key \in BlockKeys, minutes \in BlockMinutes :
          /\ BLACKLIST' = block(key, minutes)
          /\ calls' = Append(calls, [key |-> key, minutes |-> minutes, at |-> now])
    /\ UNCHANGED now
    /\ UNCHANGED blockFrame

\* time passes
BlockClock ==
    /\ pc = "blacklist"
    /\ \E t \in BlockTimes : t > now /\ now' = t
    /\ UNCHANGED <<BLACKLIST, calls>>
    /\ UNCHANGED blockFrame

NextBlock == Block \/ BlockClock

SpecBlock == InitBlock /\ [][NextBlock]_vars

(***************************************************************************)
(* score_symbol on its own (SpecScore).  Prices are whole dollars.  A      *)
(* Python float is an exact fraction <<numerator, denominator>> in lowest  *)
(* terms with a positive denominator; a bar is [high, low, close]; the     *)
(* Python index -k of a list of length n is the place n + 1 - k.  The      *)
(* lookbacks of the source (60 bars, windows of 14, 10 and 30) are scaled. *)
(***************************************************************************)
\* len(bars) < 60, scaled
MIN_BARS == 4
\* atr(bars, 14) and rsi(closes, 14), scaled
ATR_N == 2
RSI_N == 2
\* sma(closes, 10) and sma(closes, 30), scaled
SMA_FAST == 2
SMA_SLOW == 3

MIN_PRICE == 5
MAX_PRICE == 2000

Abs(x) == IF x < 0 THEN -x ELSE x

RECURSIVE Gcd(_, _)
Gcd(a, b) == IF b = 0 THEN a ELSE Gcd(b, a % b)

\* the fraction n / d in lowest terms, d # 0
Frac(n, d) ==
    LET g  == Gcd(Abs(n), Abs(d))
        sg == IF d < 0 THEN -1 ELSE 1
    IN  <<(sg * n) \div g, (sg * d) \div g>>

Whole(n) == <<n, 1>>
RAdd(x, y) == Frac(x[1] * y[2] + y[1] * x[2], x[2] * y[2])
RSub(x, y) == Frac(x[1] * y[2] - y[1] * x[2], x[2] * y[2])
RMul(x, y) == Frac(x[1] * y[1], x[2] * y[2])
RDiv(x, y) == Frac(x[1] * y[2], x[2] * y[1])
RLess(x, y) == x[1] * y[2] < y[1] * x[2]
RLeq(x, y) == x[1] * y[2] <= y[1] * x[2]
RAbs(x) == <<Abs(x[1]), x[2]>>
RMax(x, y) == IF RLess(x, y) THEN y ELSE x
RMin(x, y) == IF RLess(y, x) THEN y ELSE x

\* MIN_ATR_PCT = 0.002, MAX_ATR_PCT = 0.08
MIN_ATR_PCT == Frac(2, 1000)
MAX_ATR_PCT == Frac(8, 100)

\* vals[-k]
FromEnd(vals, k) == vals[Len(vals) + 1 - k]

RECURSIVE SumLast(_, _)
SumLast(vals, n) ==
    IF n = 0 THEN 0 ELSE FromEnd(vals, n) + SumLast(vals, n - 1)

\* sma(vals, n)
sma(vals, n) ==
    IF Len(vals) < n THEN None
    ELSE Some(Frac(SumLast(vals, n), n))

\* the loop of rsi over i in range(-n, 0): gains and losses of the last k changes
RECURSIVE rsi_gains(_, _)
rsi_gains(closes, k) ==
    IF k = 0 THEN 0
    ELSE LET ch == FromEnd(closes, k) - FromEnd(closes, k + 1)
         IN  (IF ch >= 0 THEN ch ELSE 0) + rsi_gains(closes, k - 1)

RECURSIVE rsi_losses(_, _)
rsi_losses(closes, k) ==
    IF k = 0 THEN 0
    ELSE LET ch == FromEnd(closes, k) - FromEnd(closes, k + 1)
         IN  (IF ch >= 0 THEN 0 ELSE -ch) + rsi_losses(closes, k - 1)

\* rsi(closes, n)
rsi(closes, n) ==
    IF Len(closes) < n + 1 THEN None
    ELSE LET gains  == rsi_gains(closes, n)
             losses == rsi_losses(closes, n)
         IN  IF losses = 0 THEN Some(Whole(100))
             ELSE LET rs == RDiv(Frac(gains, n), Frac(losses, n))
                  IN  Some(RSub(Whole(100), RDiv(Whole(100), RAdd(Whole(1), rs))))

Max3(a, b, c) ==
    IF a >= b /\ a >= c THEN a ELSE IF b >= c THEN b ELSE c

\* the loop of atr over i in range(-n, 0): the sum of the last k true ranges
RECURSIVE atr_sum(_, _)
atr_sum(bars, k) ==
    IF k = 0 THEN 0
    ELSE LET h  == FromEnd(bars, k).high
             l  == FromEnd(bars, k).low
             pc_ == FromEnd(bars, k + 1).close
         IN  Max3(h - l, Abs(h - pc_), Abs(l - pc_)) + atr_sum(bars, k - 1)

\* a variant of atr that never has a value
atr_none(bars, n) == None

\* atr(bars, n)
atr(bars, n) ==
    IF Len(bars) < n + 1 THEN None
    ELSE Some(Frac(atr_sum(bars, n), n))

\* lines 232-237: the three pieces of the RSI score
rsi_below(r) == RMul(RDiv(r, Whole(40)), Frac(4, 10))
rsi_between(r) == RSub(Whole(1), RDiv(RAbs(RSub(r, Whole(60))), Whole(20)))
rsi_above(r) == RMax(Whole(0), RSub(Whole(1), RDiv(RSub(r, Whole(70)), Whole(30))))

\* lines 231-239
rsi_score_of(r) ==
    LET piece == IF RLess(r, Whole(40)) THEN rsi_below(r)
                 ELSE IF RLeq(Whole(40), r) /\ RLeq(r, Whole(70)) THEN rsi_between(r)
                 ELSE rsi_above(r)
    IN  RMax(Whole(0), RMin(Whole(1), piece))

\* what score_symbol returns, with the places of bars it read and the
\* indicators it computed on the way
Scored(score, reason, price, a, read, computed) ==
    [score |-> score, reason |-> reason, price |-> price, a |-> a,
     read |-> read, computed |-> computed]

\* the places atr, sma and rsi read
LastPlaces(bars, k) == {Len(bars) + 1 - j : j \in 1 .. k}

\* a variant of score_symbol that looks at the price band before the length
score_symbol_price_first(bars) ==
    IF bars # << >> /\ (FromEnd(bars, 1).close < MIN_PRICE
                        \/ FromEnd(bars, 1).close > MAX_PRICE)
    THEN Scored(Whole(0), "price_out_of_range", Some(FromEnd(bars, 1).close), None,
                {Len(bars)}, {})
    ELSE Scored(Whole(0), "not_enough_bars", None, None, {}, {})

\* score_symbol(ib, contract) on the bars get_bars returned
score_symbol(bars) ==
    IF Len(bars) < MIN_BARS
    THEN Scored(Whole(0), "not_enough_bars", None, None, {}, {})
    ELSE
    LET closes == [i \in 1 .. Len(bars) |-> bars[i].close]
        all    == 1 .. Len(bars)
        price  == FromEnd(closes, 1)
    IN  IF price < MIN_PRICE \/ price > MAX_PRICE
        THEN Scored(Whole(0), "price_out_of_range", Some(price), None, all, {})
        ELSE
    LET a == atr(bars, ATR_N)
    IN  IF a = None \/ RLeq(a[1], Whole(0))
        THEN Scored(Whole(0), "atr_missing", Some(price), None, all, {"atr"})
        ELSE
    LET atr_pct == RDiv(a[1], Whole(price))
    IN  IF RLess(atr_pct, MIN_ATR_PCT) \/ RLess(MAX_ATR_PCT, atr_pct)
        THEN Scored(Whole(0), "atr_pct_out_of_range", Some(price), a, all, {"atr"})
        ELSE
    LET s10 == sma(closes, SMA_FAST)
        s30 == sma(closes, SMA_SLOW)
    IN  IF s10 = None \/ s30 = None
        THEN Scored(Whole(0), "sma_missing", Some(price), a, all, {"atr", "sma"})
        ELSE
    LET mom == IF RLess(s30[1], s10[1]) THEN Whole(1) ELSE Whole(0)
        r   == rsi(closes, RSI_N)
    IN  IF r = None
        THEN Scored(Whole(0), "rsi_missing", Some(price), a, all, {"atr", "sma", "rsi"})
        ELSE
    LET rsi_score == rsi_score_of(r[1])
        target    == Frac(15, 1000)
        vol_score == RSub(Whole(1),
                          RMin(Whole(1), RDiv(RAbs(RSub(atr_pct, target)), target)))
        score     == RAdd(RAdd(RMul(Frac(35, 100), mom), RMul(Frac(35, 100), rsi_score)),
                          RMul(Frac(30, 100), vol_score))
    IN  Scored(RMax(Whole(0), RMin(Whole(1), score)), "ok", Some(price), a, all,
               {"atr", "sma", "rsi"})

\* the price levels of the series tried, in dollars: below, at and above
\* the ends of the price band, and two levels inside it
BarLevels == {MIN_PRICE - 1, MIN_PRICE, 100, 1000, MAX_PRICE, MAX_PRICE + 1}

\* the bars tried at a level: flat, rising, rising further, and a bar with
\* a range that closes where it opened
BarShapes(level) ==
    {[high |-> level, low |-> level, close |-> level],
     [high |-> level + 1, low |-> level, close |-> level + 1],
     [high |-> level + 2, low |-> level + 1, close |-> level + 2],
     [high |-> level + 1, low |-> level - 1, close |-> level]}

\* the series tried: every series of up to MIN_BARS + 1 bars at one level
BarSeries ==
    UNION {[1 .. n -> BarShapes(level)] : n \in 0 .. (MIN_BARS + 1), level \in BarLevels}

InitScore ==
    /\ AtRest
    /\ BLACKLIST = << >>
    /\ pc = "scoring"
    /\ calls = << >>

scoreFrame ==
    <<now, file, entryLog, closeLog, brackets, placedDays, execs, state, attempt,
      idx, placed, ibPositions, ibOpenOrders, ibExecs, wrote, branch, resetDays,
      BLACKLIST, candidates, trades, sessions, wire>>

\* score_symbol is called and get_bars returns a series
ScoreSymbol ==
    /\ pc = "scoring"
    /\ \E bars \in BarSeries :
          calls' = <<[fn |-> "score_symbol", fetch |-> "bars", bars |-> bars,
                      ret |-> score_symbol(bars)]>>
    /\ pc' = "scored"
    /\ UNCHANGED scoreFrame

\* score_symbol is called and reqHistoricalData raises: get_bars returns []
ScoreSymbolFetchFails ==
    /\ pc = "scoring"
    /\ calls' = <<[fn |-> "score_symbol", fetch |-> "raised", bars |-> << >>,
                   ret |-> score_symbol(<< >>)]>>
    /\ pc' = "scored"
    /\ UNCHANGED scoreFrame

\* lines 231-239 on their own: the RSI score of a whole RSI value, with
\* what each of the three pieces gives at that value
RsiValues == 0 .. 100

RsiScore ==
    /\ pc = "scoring"
    /\ \E r \in RsiValues :
          calls' = <<[fn |-> "rsi_score", r |-> r,
                      below |-> rsi_below(Whole(r)),
                      between |-> rsi_between(Whole(r)),
                      above |-> rsi_above(Whole(r)),
                      ret |-> rsi_score_of(Whole(r))]>>
    /\ pc' = "scored"
    /\ UNCHANGED scoreFrame

NextScore == ScoreSymbol \/ ScoreSymbolFetchFails \/ RsiScore

SpecScore == InitScore /\ [][NextScore]_vars

(***************************************************************************)
(* The session gates on their own (SpecSession).  The clock is read as the *)
(* market's local weekday (0 = Monday .. 6 = Sunday) and minute of the     *)
(* day; for New York, dst tells whether daylight saving time is in force.  *)
(***************************************************************************)
\* the minutes of the day tried: midnight, the last minute, and the minutes
\* around 09:00, 09:30, 10:00, 16:00, 17:00 and 17:30
GateMinutes ==
    {0, 1439} \cup {h + d : h \in {540, 570, 600, 960, 1020, 1050}, d \in {-1, 0, 1}}

\* paper_trader_loop.us_open() at New York weekday and minute
us_open(weekday, minute) ==
    IF weekday >= 5 THEN FALSE
    ELSE LET mo == 9 * 60 + 30
             mc == 16 * 60
         IN  mo <= minute /\ minute < mc

\* paper_trader_loop.eu_open() at Copenhagen weekday and minute
eu_open(weekday, minute) ==
    IF weekday >= 5 THEN FALSE
    ELSE LET mo == 9 * 60
             mc == 17 * 60 + 30
         IN  mo <= minute /\ minute < mc

\* paper_trader_us.us_market_open() at New York minute: the clock is moved
\* to UTC-5 whatever the season, so under daylight saving time est is one
\* hour behind New York
us_market_open(minute, dst) ==
    LET est  == (minute - (IF dst THEN 60 ELSE 0)) % 1440
        hour == est \div 60
    IN  9 <= hour /\ hour < 16

InitSession ==
    /\ AtRest
    /\ BLACKLIST = << >>
    /\ pc = "gate"
    /\ calls = << >>

UsOpen ==
    /\ pc = "gate"
    /\ \E weekday \in 0 .. 6, minute \in GateMinutes :
          calls' = <<[fn |-> "us_open", weekday |-> weekday, minute |-> minute,
                      ret |-> us_open(weekday, minute)]>>
    /\ pc' = "asked"
    /\ UNCHANGED scoreFrame

EuOpen ==
    /\ pc = "gate"
    /\ \E weekday \in 0 .. 6, minute \in GateMinutes :
          calls' = <<[fn |-> "eu_open", weekday |-> weekday, minute |-> minute,
                      ret |-> eu_open(weekday, minute)]>>
    /\ pc' = "asked"
    /\ UNCHANGED scoreFrame

UsMarketOpen ==
    /\ pc = "gate"
    /\ \E weekday \in 0 .. 6, minute \in GateMinutes, dst \in BOOLEAN :
          calls' = <<[fn |-> "us_market_open", weekday |-> weekday, minute |-> minute,
                      dst |-> dst, ret |-> us_market_open(minute, dst)]>>
    /\ pc' = "asked"
    /\ UNCHANGED scoreFrame

NextSession == UsOpen \/ EuOpen \/ UsMarketOpen

SpecSession == InitSession /\ [][NextSession]_vars

(***************************************************************************)
(* Errors in the scan of the single-position engine (SpecScan)             *)
(***************************************************************************)
\* the calls of one ticker's evaluation that can raise before an order is sent:
\* line 326, lines 328-335 and line 337 (get_signal on the empty frame that
\* util.df makes of an empty bar list)
ScanErrors == {"qualifyContracts", "reqHistoricalData", "get_signal"}

\* lines 324-337: a call of one ticker's evaluation raises; main has no
\* handler around the scan, so the exception leaves main and the process ends
ScanRaises ==
    /\ pc = "scan"
    /\ idx <= Len(TICKERS)
    /\ Len(calls) < MaxScanErrors
    /\ \E error \in ScanErrors :
          calls' = Append(calls, [fn |-> "main", ticker |-> idx, error |-> error])
    /\ Exit
    /\ UNCHANGED <<now, file, entryLog, closeLog, brackets, placedDays, execs, resetDays>>
    /\ UNCHANGED loopVars
    /\ UNCHANGED wire

NextScan ==
    \/ Start \/ ConnectOk \/ ConnectFail
    \/ CloseUnset \/ CloseActive \/ CloseCleared \/ CloseLogRow \/ CloseWrite
    \/ GateStop \/ GatePass
    \/ ScanSkip \/ ScanPlace(MaxBrackets) \/ ScanEnd \/ ScanRaises
    \/ NoFill \/ LogEntry \/ RecordOpen
    \/ Stop
    \/ Tick(MaxTime) \/ FillParent \/ FillChild \/ CancelBracket \/ ExpireChildren
    \/ FileLost

SpecScan == Init /\ [][NextScan]_vars

(***************************************************************************)
(* Connecting, in both engines (SpecConnect): the single-position engine   *)
(* with every run on record in calls (what read_state returned at line     *)
(* 274, the brackets at the broker then, how the run ended), and           *)
(* connect_ib of the loop engine up to the start of its loop.  A behaviour *)
(* is of one engine; no process is stopped from outside.                   *)
(***************************************************************************)
\* range(8) of connect_ib
LOOP_CONNECT_ATTEMPTS == 8

\* line 274 as in Start, the run put on record
ConnectStart ==
    /\ pc = "idle"
    /\ Len(calls) < MaxRuns
    /\ state' = reset_state_if_new_day(read_state)
    /\ IF read_state.date # today_utc_str
       THEN /\ file' = write_state(state')
            /\ wrote' = TRUE
            /\ resetDays' = Append(resetDays, today_utc_str)
       ELSE /\ file' = file
            /\ wrote' = FALSE
            /\ resetDays' = resetDays
    /\ pc' = "connect"
    /\ attempt' = 1
    /\ calls' = Append(calls, [fn |-> "main", stored |-> read_state,
                               orders |-> Len(brackets), ended |-> "running"])
    /\ UNCHANGED <<now, entryLog, closeLog, brackets, placedDays, execs, idx, placed,
                   ibPositions, ibOpenOrders, ibExecs, branch>>
    /\ UNCHANGED loopVars
    /\ UNCHANGED wire

\* a variant of the failed attempt that tries once more after the last one
ConnectRetries ==
    /\ pc = "connect"
    /\ attempt <= CONNECT_ATTEMPTS
    /\ attempt' = attempt + 1
    /\ UNCHANGED <<now, file, entryLog, closeLog, brackets, placedDays, execs, resetDays,
                   pc, state, idx, placed, ibPositions, ibOpenOrders, ibExecs, branch,
                   wrote>>
    /\ UNCHANGED loopVars
    /\ UNCHANGED harnessVars

\* lines 286-296 as in ConnectFail: after the last failed attempt main
\* returns, which goes on the run's record
ConnectFails ==
    /\ pc = "connect"
    /\ IF attempt < CONNECT_ATTEMPTS
       THEN /\ attempt' = attempt + 1
            /\ UNCHANGED <<pc, state, idx, placed, ibPositions, ibOpenOrders, ibExecs,
                           branch, wrote, calls>>
       ELSE /\ Exit
            /\ calls' = [calls EXCEPT ![Len(calls)].ended = "not_connected"]
    /\ UNCHANGED <<now, file, entryLog, closeLog, brackets, placedDays, execs, resetDays>>
    /\ UNCHANGED loopVars
    /\ UNCHANGED wire

\* line 288: main calls connect_ib, the first attempt begins
LoopStart ==
    /\ pc = "loop_idle"
    /\ pc' = "loop_connect"
    /\ attempt' = 1
    /\ UNCHANGED <<now, brackets, execs, idx, ibPositions>>
    /\ UNCHANGED <<file, entryLog, closeLog, placedDays, state, placed, ibOpenOrders,
                   ibExecs, wrote, branch, resetDays>>
    /\ UNCHANGED loopVars
    /\ UNCHANGED harnessVars

\* connect_ib, lines 55-60: an attempt connects, connect_ib returns and main
\* goes on to its loop
LoopConnectOk ==
    /\ pc = "loop_connect"
    /\ pc' = "loop_gate"
    /\ UNCHANGED <<now, brackets, execs, idx, ibPositions, attempt>>
    /\ UNCHANGED <<file, entryLog, closeLog, placedDays, state, placed, ibOpenOrders,
                   ibExecs, wrote, branch, resetDays>>
    /\ UNCHANGED loopVars
    /\ UNCHANGED harnessVars

\* connect_ib, lines 54-64: an attempt raises or leaves the client
\* unconnected; after the last one RuntimeError leaves connect_ib and main
LoopConnectFail ==
    /\ pc = "loop_connect"
    /\ IF attempt < LOOP_CONNECT_ATTEMPTS
       THEN attempt' = attempt + 1 /\ pc' = pc
       ELSE attempt' = attempt /\ pc' = "loop_failed"
    /\ UNCHANGED <<now, brackets, execs, idx, ibPositions>>
    /\ UNCHANGED <<file, entryLog, closeLog, placedDays, state, placed, ibOpenOrders,
                   ibExecs, wrote, branch, resetDays>>
    /\ UNCHANGED loopVars
    /\ UNCHANGED harnessVars

\* the single-position engine before its first run, or the loop engine
\* before it
InitConnect ==
    \/ Init
    \/ /\ AtRest
       /\ BLACKLIST = << >>
       /\ calls = << >>
       /\ pc = "loop_idle"

NextConnect ==
    \/ ConnectStart \/ ConnectOk \/ ConnectFails
    \/ CloseUnset \/ CloseActive \/ CloseCleared \/ CloseLogRow \/ CloseWrite
    \/ GateStop \/ GatePass
    \/ ScanSkip \/ ScanPlace(MaxBrackets) \/ ScanEnd
    \/ NoFill \/ LogEntry \/ RecordOpen
    \/ Tick(MaxTime) \/ FillParent \/ FillChild \/ CancelBracket \/ ExpireChildren
    \/ FileLost
    \/ LoopStart \/ LoopConnectOk \/ LoopConnectFail

SpecConnect == InitConnect /\ [][NextConnect]_vars

(***************************************************************************)
(* The watermark over runs (SpecWatermark): the single-position engine     *)
(* started with no position tracked and any watermark stored, and with at  *)
(* most one sell execution of any time stamp already in the broker's list  *)
(* (the broker's clock may be ahead).  Every run is on record in           *)
(* calls, as in SpecConnect; every connect attempt succeeds, no process   *)
(* is stopped and the state file is not damaged from outside.              *)
(***************************************************************************)
\* the sell executions of the tracked symbol the broker's list starts with
WatermarkSells ==
    {e \in ReconExecutions : e.side = "SLD" /\ e.sym = "SPY" /\ e.price = 10120}

\* the broker's list at the start: empty, or one of them
WatermarkLists == {<< >>} \cup {<<e>> : e \in WatermarkSells}

InitWatermark ==
    /\ now = 0
    /\ \E s \in ReconStates : s.open_position = None /\ file = write_state(s)
    /\ entryLog = << >>
    /\ closeLog = << >>
    /\ brackets = << >>
    /\ placedDays = << >>
    /\ execs \in WatermarkLists
    /\ pc = "idle"
    /\ state = IdleState
    /\ attempt = 0
    /\ idx = 0
    /\ placed = None
    /\ ibPositions = {}
    /\ ibOpenOrders = {}
    /\ ibExecs = << >>
    /\ wrote = FALSE
    /\ branch = "none"
    /\ resetDays = << >>
    /\ BLACKLIST = << >>
    /\ candidates = << >>
    /\ trades = 0
    /\ sessions = [u_open |-> FALSE, e_open |-> FALSE]
    /\ wire = << >>
    /\ calls = << >>

NextWatermark ==
    \/ ConnectStart \/ ConnectOk
    \/ CloseUnset \/ CloseActive \/ CloseCleared \/ CloseLogRow \/ CloseWrite
    \/ GateStop \/ GatePass
    \/ ScanSkip \/ ScanPlace(MaxBrackets) \/ ScanEnd
    \/ NoFill \/ LogEntry \/ RecordOpen
    \/ Tick(MaxTime) \/ FillParent \/ FillChild

SpecWatermark == InitWatermark /\ [][NextWatermark]_vars

(***************************************************************************)
(* read_state on every content of the state file (SpecReadState)           *)
(*                                                                         *)
(* Here file.status is what bot_state.json holds: "missing" (no file),     *)
(* "unreadable" (open raises), "malformed" (json.load raises),             *)
(* "not_a_dict" (JSON that is not an object) or "ok" (a JSON object), and  *)
(* file.data is the object: a function from the keys present to values.    *)
(***************************************************************************)
STATE_KEYS == {"date", "trades_today", "open_position", "last_close_time"}

\* the four defaults of lines 69 and 74-77, at a given day
state_default(today) ==
    [date |-> today, trades_today |-> 0,
     open_position |-> None, last_close_time |-> None]

\* a variant of setdefault that assigns the key whether it is present or not
setdefault_assigns(d, k, v) ==
    [x \in DOMAIN d \cup {k} |-> IF x = k THEN v ELSE d[x]]

\* dict.setdefault(k, v): the dict with k added when k is not in it
setdefault(d, k, v) ==
    IF k \in DOMAIN d THEN d
    ELSE [x \in DOMAIN d \cup {k} |-> IF x = k THEN v ELSE d[x]]

\* lines 71-78, the body of the try: what it returns, or that it raised
\* (open on a file that cannot be read, json.load on text that is not JSON,
\* setdefault on a value that is not a dict)
read_state_try(f, today) ==
    IF f.status \in {"unreadable", "malformed", "not_a_dict"}
    THEN [raised |-> TRUE, ret |-> << >>]
    ELSE [raised |-> FALSE,
          ret |-> setdefault(
                    setdefault(
                      setdefault(
                        setdefault(f.data, "date", today),
                        "trades_today", 0),
                      "open_position", None),
                    "last_close_time", None)]

\* read_state(), lines 67-79, on the file f at the day today: the record
\* returned and whether an exception leaves the function
read_state_file(f, today) ==
    IF f.status = "missing"
    THEN [raised |-> FALSE, ret |-> state_default(today)]
    ELSE IF read_state_try(f, today).raised
         THEN [raised |-> FALSE, ret |-> state_default(today)]
         ELSE read_state_try(f, today)

\* a position as main records it, for the files tried
StoredPosition ==
    [symbol |-> TICKERS[1], qty |-> 1, entry_price |-> 100, entry_time |-> 0,
     order_id |-> 1]

\* the JSON object with the given fields: each of present is << >> when the
\* key is absent and <<v>> when the key is there with value v
JsonObject(present) ==
    [k \in {x \in DOMAIN present : present[x] # << >>} |-> present[k][1]]

\* the JSON objects tried: every choice of keys out of the four and one more,
\* each with a few values, null among them
StateObjects ==
    {JsonObject([date |-> d, trades_today |-> t, open_position |-> o,
                 last_close_time |-> l, note |-> n]) :
        d \in {<< >>, <<0>>, <<1>>},
        t \in {<< >>, <<0>>, <<MAX_TRADES_PER_DAY>>},
        o \in {<< >>, <<None>>, <<Some(StoredPosition)>>},
        l \in {<< >>, <<None>>, <<Some(0)>>},
        n \in {<< >>, <<0>>}}

\* the contents of bot_state.json tried
StateFiles ==
    {[status |-> st, data |-> << >>] :
        st \in {"missing", "unreadable", "malformed", "not_a_dict"}}
    \cup {[status |-> "ok", data |-> d] : d \in StateObjects}

InitReadState ==
    /\ now \in {0, TicksPerDay}
    /\ file \in StateFiles
    /\ entryLog = << >>
    /\ closeLog = << >>
    /\ brackets = << >>
    /\ placedDays = << >>
    /\ execs = << >>
    /\ state = IdleState
    /\ attempt = 0
    /\ idx = 0
    /\ placed = None
    /\ ibPositions = {}
    /\ ibOpenOrders = {}
    /\ ibExecs = << >>
    /\ wrote = FALSE
    /\ branch = "none"
    /\ resetDays = << >>
    /\ candidates = << >>
    /\ trades = 0
    /\ sessions = [u_open |-> FALSE, e_open |-> FALSE]
    /\ wire = << >>
    /\ BLACKLIST = << >>
    /\ pc = "reading"
    /\ calls = << >>

\* read_state is called
ReadState ==
    /\ pc = "reading"
    /\ calls' = <<[fn |-> "read_state", today |-> today_utc_str,
                   raised |-> read_state_file(file, today_utc_str).raised,
                   ret |-> read_state_file(file, today_utc_str).ret]>>
    /\ pc' = "read"
    /\ UNCHANGED scoreFrame

NextReadState == ReadState

SpecReadState == InitReadState /\ [][NextReadState]_vars

(***************************************************************************)
(* The two log files of the single-position engine (SpecLogs)              *)
(*                                                                         *)
(* Here entryLog and closeLog are the files themselves: exists tells       *)
(* whether the file is there, lines are its lines, the header line         *)
(* included.  One run of main after another, each of its file operations a *)
(* step of its own, the process allowed to stop between any two; calls     *)
(* counts the stops.                                                       *)
(***************************************************************************)
\* the header line of a log, and the rows tried
HeaderLine == "header"

LogRows == {"row_a", "row_b"}

\* a variant of ensure_csv_header that writes the header on every call
ensure_csv_header_always(f) ==
    [exists |-> TRUE, lines |-> <<HeaderLine>>]

\* ensure_csv_header(path, header), lines 58-61: a missing or empty file is
\* opened for writing and gets the header, any other file is left alone
ensure_csv_header(f) ==
    IF ~f.exists \/ Len(f.lines) = 0
    THEN [exists |-> TRUE, lines |-> <<HeaderLine>>]
    ELSE f

\* append_csv(path, row), lines 63-65: the file is opened for appending,
\* which creates it when it is missing, and the row is written at its end
append_csv(f, row) ==
    [exists |-> TRUE, lines |-> Append(f.lines, row)]

\* a log file as a run can find it at the start: missing, or empty
FreshLogs == {[exists |-> FALSE, lines |-> << >>], [exists |-> TRUE, lines |-> << >>]}

InitLogs ==
    /\ now = 0
    /\ file = [status |-> "missing", data |-> IdleState]
    /\ entryLog \in FreshLogs
    /\ closeLog \in FreshLogs
    /\ brackets = << >>
    /\ placedDays = << >>
    /\ execs = << >>
    /\ state = IdleState
    /\ attempt = 0
    /\ idx = 0
    /\ placed = None
    /\ ibPositions = {}
    /\ ibOpenOrders = {}
    /\ ibExecs = << >>
    /\ wrote = FALSE
    /\ branch = "none"
    /\ resetDays = << >>
    /\ candidates = << >>
    /\ trades = 0
    /\ sessions = [u_open |-> FALSE, e_open |-> FALSE]
    /\ wire = << >>
    /\ BLACKLIST = << >>
    /\ pc = "idle"
    /\ calls = << >>

logsFrame ==
    <<now, file, brackets, placedDays, execs, state, attempt, idx, placed, ibPositions,
      ibOpenOrders, ibExecs, wrote, branch, resetDays, BLACKLIST, candidates, trades,
      sessions, wire>>

\* main, lines 266-269: the header of the entry log is ensured
LogsEntryHeader ==
    /\ pc = "idle"
    /\ entryLog' = ensure_csv_header(entryLog)
    /\ pc' = "close_header"
    /\ UNCHANGED <<closeLog, calls>>
    /\ UNCHANGED logsFrame

\* main, lines 270-272: the header of the close log is ensured
LogsCloseHeader ==
    /\ pc = "close_header"
    /\ closeLog' = ensure_csv_header(closeLog)
    /\ pc' = "reconcile"
    /\ UNCHANGED <<entryLog, calls>>
    /\ UNCHANGED logsFrame

\* check_and_log_close returns without a close-log row (lines 177-238)
LogsNoClose ==
    /\ pc = "reconcile"
    /\ pc' = "scan"
    /\ UNCHANGED <<entryLog, closeLog, calls>>
    /\ UNCHANGED logsFrame

\* check_and_log_close, lines 251-253: a close is to be logged, the header of
\* the close log is ensured again
LogsEnsureClose ==
    /\ pc = "reconcile"
    /\ Len(closeLog.lines) <= MaxLogRows
    /\ closeLog' = ensure_csv_header(closeLog)
    /\ pc' = "close_append"
    /\ UNCHANGED <<entryLog, calls>>
    /\ UNCHANGED logsFrame

\* check_and_log_close, lines 254-256: the close-log row is appended
LogsAppendClose ==
    /\ pc = "close_append"
    /\ \E row \in LogRows : closeLog' = append_csv(closeLog, row)
    /\ pc' = "scan"
    /\ UNCHANGED <<entryLog, calls>>
    /\ UNCHANGED logsFrame

\* main returns without an entry-log row (lines 319-321, 357-362, 391-392)
LogsNoEntry ==
    /\ pc = "scan"
    /\ pc' = "idle"
    /\ UNCHANGED <<entryLog, closeLog, calls>>
    /\ UNCHANGED logsFrame

\* main, lines 375-377 and 389-392: the entry-log row is appended, main returns
LogsAppendEntry ==
    /\ pc = "scan"
    /\ Len(entryLog.lines) <= MaxLogRows
    /\ \E row \in LogRows : entryLog' = append_csv(entryLog, row)
    /\ pc' = "idle"
    /\ UNCHANGED <<closeLog, calls>>
    /\ UNCHANGED logsFrame

\* the process is stopped between two file operations
LogsCrash ==
    /\ pc # "idle"
    /\ Len(calls) < MaxCrashes
    /\ calls' = Append(calls, [fn |-> "crash", at |-> pc])
    /\ pc' = "idle"
    /\ UNCHANGED <<entryLog, closeLog>>
    /\ UNCHANGED logsFrame

NextLogs ==
    \/ LogsEntryHeader \/ LogsCloseHeader
    \/ LogsNoClose \/ LogsEnsureClose \/ LogsAppendClose
    \/ LogsNoEntry \/ LogsAppendEntry
    \/ LogsCrash

SpecLogs == InitLogs /\ [][NextLogs]_vars

(***************************************************************************)
(* Properties of check_and_log_close (SpecRecon)                           *)
(***************************************************************************)
\* the sell executions that close the tracked position of s: on its symbol,
\* strictly after its entry time and strictly after the watermark if one is set
Closing(s, es) ==
    {i \in 1 .. Len(es) :
        /\ es[i].side = "SLD"
        /\ es[i].sym = s.open_position[1].symbol
        /\ es[i].time > s.open_position[1].entry_time
        /\ (s.last_close_time = None \/ es[i].time > s.last_close_time[1])}

\* the most recent of them
Latest(s, es) ==
    {i \in Closing(s, es) : \A j \in Closing(s, es) : es[j].time <= es[i].time}

\* the broker reports no position and no open order
BrokerFlat == ibPositions = {} /\ ibOpenOrders = {}

\* a call of check_and_log_close leaves the call's entry
Called == pc = "reconcile" /\ pc' # "reconcile"

\* C4: with a tracked position, a flat broker and a sell execution of the
\* tracked symbol later than the entry time and the watermark, the call
\* appends exactly one close-log row, whose exit is the most recent such
\* execution and whose P/L is (exit price - entry price) * quantity, then
\* clears open_position and sets last_close_time to that execution's time
C4_CloseLogged ==
    /\ [][(Called /\ state.open_position # None /\ BrokerFlat
              /\ Closing(state, ibExecs) # {})
          => /\ pc' = "close_write"
             /\ Len(closeLog') = Len(closeLog) + 1
             /\ SubSeq(closeLog', 1, Len(closeLog)) = closeLog
             /\ \E i \in Latest(state, ibExecs) :
                   LET row == closeLog'[Len(closeLog')]
                       pos == state.open_position[1]
                   IN  /\ row.symbol = pos.symbol
                       /\ row.qty = pos.qty
                       /\ row.entry_price = pos.entry_price
                       /\ row.exit_price = ibExecs[i].price
                       /\ row.exit_time_utc = ibExecs[i].time
                       /\ row.pnl = (ibExecs[i].price - pos.entry_price) * pos.qty]_vars
    /\ [][(pc = "close_write" /\ pc' # "close_write")
          => /\ state'.open_position = None
             /\ \E i \in Latest(state, ibExecs) :
                   state'.last_close_time = Some(ibExecs[i].time)
             /\ state'.trades_today = state.trades_today
             /\ state'.date = state.date
             /\ closeLog' = closeLog
             /\ file' = [status |-> "ok", data |-> state']]_vars

\* the row was appended for the later of two sells that differ in time and
\* in price
C4_Witness ==
    /\ pc = "close_write"
    /\ closeLog # << >>
    /\ \E i \in Closing(state, ibExecs), j \in Closing(state, ibExecs) :
          /\ ibExecs[i].time < ibExecs[j].time
          /\ i > j
          /\ ibExecs[i].price # ibExecs[j].price
          /\ closeLog[Len(closeLog)].exit_price = ibExecs[j].price

\* C6: a call with open_position unset (such as the call after the one that
\* cleared it, on the same executions) changes nothing of the state, writes
\* no state file and appends no close-log row
C6_SecondCallNoOp ==
    [][(Called /\ state.open_position = None)
       => /\ state' = state
          /\ file' = file
          /\ closeLog' = closeLog
          /\ entryLog' = entryLog
          /\ ~wrote']_vars

\* the call after a logged close returned, on the same executions
C6_Witness ==
    /\ pc = "gate"
    /\ branch = "unset"
    /\ Len(closeLog) = 1
    /\ state.last_close_time # None
    /\ \E i \in 1 .. Len(ibExecs) :
          /\ ibExecs[i].side = "SLD"
          /\ ibExecs[i].time = closeLog[1].exit_time_utc

\* C7: while the broker reports a position or an open order, a call with a
\* tracked position leaves open_position, last_close_time, trades_today, the
\* state file and the close log as they were, whatever executions exist
C7_ActiveUntouched ==
    [][(Called /\ state.open_position # None /\ ~BrokerFlat)
       => /\ state' = state
          /\ file' = file
          /\ closeLog' = closeLog
          /\ ~wrote']_vars

\* the call returned with a position reported and a closing sell in the
\* executions
C7_Witness ==
    /\ pc = "gate"
    /\ branch = "active"
    /\ state.open_position # None
    /\ ibPositions # {}
    /\ ibOpenOrders = {}
    /\ Closing(state, ibExecs) # {}

\* C8: with a tracked position, a flat broker and no sell execution that
\* qualifies, the call clears open_position and writes the state, appends
\* no close-log row and leaves last_close_time and trades_today as they were
C8_ClearedWithoutRow ==
    [][(Called /\ state.open_position # None /\ BrokerFlat
           /\ Closing(state, ibExecs) = {})
       => /\ state' = [state EXCEPT !.open_position = None]
          /\ file' = [status |-> "ok", data |-> state']
          /\ wrote'
          /\ closeLog' = closeLog
          /\ pc' = "gate"]_vars

\* the call cleared the position although a sell of the tracked symbol, at
\* the time of the watermark, was reported
C8_Witness ==
    /\ pc = "gate"
    /\ branch = "cleared"
    /\ closeLog = << >>
    /\ state.open_position = None
    /\ state.last_close_time # None
    /\ state.trades_today = 1
    /\ \E i \in 1 .. Len(ibExecs) :
          /\ ibExecs[i].side = "SLD"
          /\ ibExecs[i].sym = "SPY"
          /\ ibExecs[i].time = state.last_close_time[1]
          /\ ibExecs[i].time > 0

(***************************************************************************)
(* Properties of main (Spec, SpecFlat, SpecCap)                            *)
(***************************************************************************)
\* the brackets with a working order or a position at the broker
LiveBrackets == {b \in BracketIds : brackets[b].status \in LiveStatus}

\* a bracket is submitted in this step
Submits == Len(brackets') > Len(brackets)

\* C1: a bracket is submitted only when, after the reconciliation, the
\* broker reports no open order and no position and open_position is unset;
\* no second bracket is submitted while one is tracked or live at the
\* broker, so at most one bracket is live at any time
C1_OneBracketAtATime ==
    /\ [][Submits
          => /\ pc = "scan"
             /\ branch \in {"unset", "cleared", "closed"}
             /\ state.open_position = None
             /\ ibPositions = {}
             /\ ibOpenOrders = {}
             /\ LiveBrackets = {}]_vars
    /\ [](Cardinality(LiveBrackets) <= 1)

\* a second bracket was submitted after the first was filled, tracked,
\* closed at the broker and cleared by the reconciliation
C1_Witness ==
    /\ pc = "wait_fill"
    /\ Len(brackets) = 2
    /\ brackets[1].status = "closed"
    /\ brackets[2].status = "working"
    /\ Len(entryLog) = 1
    /\ branch = "cleared"

\* C3: the brackets submitted on one UTC day never exceed MAX_TRADES_PER_DAY
C3_DailyCap ==
    \A d \in {placedDays[b] : b \in 1 .. Len(placedDays)} :
        Cardinality({b \in 1 .. Len(placedDays) : placedDays[b] = d})
            <= MAX_TRADES_PER_DAY

\* C5: no sell execution is appended to the close log more than once
C5_LoggedOnce ==
    \A i \in 1 .. Len(closeLog), j \in 1 .. Len(closeLog) :
        closeLog[i].exec = closeLog[j].exec => i = j

\* main loads the state: line 274
Loads == pc = "idle" /\ pc' = "connect"

\* what is in the file when main loads it
Stored == IF file.status = "ok" THEN file.data ELSE DefaultState

\* C9: when the stored date differs from today's UTC date the load sets
\* trades_today to 0 and date to today and writes the state before the
\* reconciliation, the gates and the scan; when it equals today's date the
\* load keeps trades_today and writes nothing
C9_ResetOnNewDay ==
    [][Loads
       => IF Stored.date # today_utc_str
          THEN /\ state'.trades_today = 0
               /\ state'.date = today_utc_str
               /\ state'.open_position = Stored.open_position
               /\ state'.last_close_time = Stored.last_close_time
               /\ file' = [status |-> "ok", data |-> state']
               /\ wrote'
          ELSE /\ state' = Stored
               /\ file' = file
               /\ ~wrote']_vars

\* the load reset a count of one trade of the day before
C9_Witness ==
    /\ pc = "connect"
    /\ wrote
    /\ file.status = "ok"
    /\ file.data.trades_today = 0
    /\ file.data.date = today_utc_str
    /\ today_utc_str > 0
    /\ Len(entryLog) = 1
    /\ resetDays = <<today_utc_str>>

\* C10: the reset happens at most once per UTC day: after the first reset of
\* a day, a load of the same day resets nothing and keeps the stored count
C10_ResetOncePerDay ==
    /\ [](\A i \in 1 .. Len(resetDays), j \in 1 .. Len(resetDays) :
             resetDays[i] = resetDays[j] => i = j)
    /\ [][(Loads /\ \E i \in 1 .. Len(resetDays) : resetDays[i] = today_utc_str)
          => /\ resetDays' = resetDays
             /\ file' = file
             /\ ~wrote'
             /\ state'.date = today_utc_str
             /\ file.status = "ok" => state'.trades_today = file.data.trades_today]_vars

\* a load on a day that already had its reset left the file as it was
C10_Witness ==
    /\ pc = "connect"
    /\ ~wrote
    /\ attempt = 1
    /\ file.status = "ok"
    /\ state = file.data
    /\ resetDays = <<today_utc_str>>

(***************************************************************************)
(* Properties of the loop engine (LoopSpec)                                *)
(***************************************************************************)
\* C2: no bracket is submitted for a symbol that has an open position or a
\* live order of an earlier dispatch: no two live brackets are of one symbol
C2_NoSecondBracket ==
    \A b1 \in LiveBrackets, b2 \in LiveBrackets :
        brackets[b1].sym = brackets[b2].sym => b1 = b2

(***************************************************************************)
(* Properties of the waits and the records of main (Spec)                  *)
(***************************************************************************)
\* the broker has executed a buy of the order main waits for
FillObserved ==
    \E i \in 1 .. Len(execs) :
        execs[i].side = "BOT" /\ execs[i].oid = placed[1].order_id

\* the buy execution a recorded position or an entry-log row rests on
FilledAt(order_id, symbol, price) ==
    \E i \in 1 .. Len(execs) :
        /\ execs[i].side = "BOT"
        /\ execs[i].oid = order_id
        /\ execs[i].sym = symbol
        /\ execs[i].price = price

\* C11: when no fill of the parent is seen after the wait the run ends with
\* the state file as it was (open_position unset, trades_today not
\* incremented) and no entry-log row; a position is recorded, and an
\* entry-log row written, only for a fill that happened, at its price
C11_NoFillNoRecord ==
    /\ [][(pc = "wait_fill" /\ pc' # "wait_fill" /\ ~FillObserved)
          => /\ pc' = "idle"
             /\ file' = file
             /\ file.status = "ok" => file.data.open_position = None
             /\ entryLog' = entryLog]_vars
    /\ [](file.status = "ok" /\ file.data.open_position # None
            => FilledAt(file.data.open_position[1].order_id,
                        file.data.open_position[1].symbol,
                        file.data.open_position[1].entry_price))
    /\ [](\A r \in 1 .. Len(entryLog) :
            FilledAt(entryLog[r].order_id, entryLog[r].symbol, entryLog[r].entry_price))

\* the run ended without a record and the parent was filled afterwards
C11_Witness ==
    /\ pc = "idle"
    /\ Len(brackets) = 1
    /\ brackets[1].status = "open"
    /\ entryLog = << >>
    /\ file.status = "missing"
    /\ Len(execs) = 1

(***************************************************************************)
(* Properties of place_bracket (SpecOrders)                                *)
(***************************************************************************)
\* the places on the wire of the orders of one call, and how many of them
\* come before place i
OrdersOf(c) == {i \in 1 .. Len(wire) : wire[i].call = c}

PlaceInCall(i) == Cardinality({j \in OrdersOf(wire[i].call) : j < i})

\* the first order of the call order i belongs to
ParentOf(i) ==
    wire[CHOOSE j \in OrdersOf(wire[i].call) : PlaceInCall(j) = 0]

\* C12: in every place_bracket call of either engine the parent market order
\* goes first without transmit, the take-profit second without transmit and
\* with the parent's id as parentId, the stop-loss third with transmit and
\* with the parent's id as parentId; the only order that transmits is the
\* last of the three
C12_BracketProtocol ==
    \A i \in 1 .. Len(wire) :
        /\ PlaceInCall(i) <= 2
        /\ PlaceInCall(i) = 0 =>
              /\ wire[i].kind = "MKT" /\ wire[i].action = "BUY"
              /\ ~wire[i].transmit
              /\ wire[i].parentId = 0
        /\ PlaceInCall(i) = 1 =>
              /\ wire[i].kind = "LMT" /\ wire[i].action = "SELL"
              /\ ~wire[i].transmit
              /\ wire[i].parentId = ParentOf(i).orderId
        /\ PlaceInCall(i) = 2 =>
              /\ wire[i].kind = "STP" /\ wire[i].action = "SELL"
              /\ wire[i].transmit
              /\ wire[i].parentId = ParentOf(i).orderId
        /\ wire[i].transmit => PlaceInCall(i) = 2
        /\ \A j \in 1 .. Len(wire) : wire[i].orderId = wire[j].orderId => i = j

\* a call of the loop engine and a call of the single engine both placed
\* their three orders
C12_Witness ==
    /\ pc = "pb_idle"
    /\ Len(calls) = 2
    /\ calls[1].engine = "loop" /\ calls[1].ret = "placed"
    /\ calls[2].engine = "single" /\ calls[2].ret = "placed"
    /\ Len(wire) = 6
    /\ wire[6].transmit
    /\ wire[4].orderId > wire[3].orderId + 1

\* C13: the take-profit and the stop-loss of every bracket of either engine
\* share one OCA group derived from the parent's order id, and no two
\* brackets share an OCA group
C13_OcaGroup ==
    \A i \in 1 .. Len(wire) :
        wire[i].parentId # 0 =>
            /\ wire[i].ocaGroup = Some(<<"OCA", wire[i].parentId>>)
            /\ wire[i].ocaType = 1
            /\ \A j \in 1 .. Len(wire) :
                  wire[j].ocaGroup = wire[i].ocaGroup => wire[j].parentId = wire[i].parentId

(***************************************************************************)
(* Properties of the sizing functions (SpecSizing)                         *)
(***************************************************************************)
\* C14: calc_qty(price) is a whole number >= 0 for every price, it is 0 when
\* price * stop-loss fraction is <= 0, and for every price > 0 it is the
\* floor of (equity * risk fraction) / (price * stop-loss fraction): the
\* largest q with q * price * stop <= equity * risk; at a price of 100.00
\* with a budget of 50 and a stop of 0.007 it is 71
C14_CalcQtyFloor ==
    \A i \in 1 .. Len(calls) :
        calls[i].fn = "calc_qty" =>
            LET price == calls[i].price
                q     == calls[i].ret
            IN  /\ q \in Nat
                /\ price * STOP_LOSS_PM <= 0 => q = 0
                /\ price > 0 =>
                      /\ q * price * STOP_LOSS_PM
                            <= ACCOUNT_EQUITY_DKK * RISK_PER_TRADE_BP * 10
                      /\ (q + 1) * price * STOP_LOSS_PM
                            > ACCOUNT_EQUITY_DKK * RISK_PER_TRADE_BP * 10
                /\ price = 10000 => q = 71

\* calc_qty was applied to the quote 100.00 and gave 71
C14_Witness ==
    /\ Len(calls) = 1
    /\ calls[1].fn = "calc_qty"
    /\ calls[1].price = 10000
    /\ calls[1].ret = 71

\* C15: position_size(price) of the loop engine and of paper_trader_us is
\* the floor of capital per trade / price for every price > 0, hence 0
\* whenever the price is above the capital per trade
C15_PositionSizeFloor ==
    \A i \in 1 .. Len(calls) :
        calls[i].fn \in {"position_size", "us_position_size"} =>
            LET price   == calls[i].price
                q       == calls[i].ret
                capital == IF calls[i].fn = "position_size"
                           THEN CAPITAL_PER_TRADE_USD ELSE CAPITAL_PER_TRADE
            IN  /\ q * price <= capital * 100
                /\ (q + 1) * price > capital * 100
                /\ price > capital * 100 => q = 0

(***************************************************************************)
(* Properties of the blacklist (SpecBlock)                                 *)
(***************************************************************************)
\* the calls of block on a key, and the last of them
BlocksOn(key) == {i \in 1 .. Len(calls) : calls[i].key = key}

LastBlockOn(key) ==
    calls[CHOOSE i \in BlocksOn(key) : \A j \in BlocksOn(key) : j <= i]

\* C16: a key block was never called on is never reported blocked; after
\* block(K, m) at minute T with no later block on K, is_blocked(K) is true
\* at every minute from T up to but excluding T + m (at T + 59 for m = 60)
\* and false from T + m on (at T + 61), with the entry still in the dict
C16_ExpiryByClock ==
    \A key \in BlockKeys :
        IF BlocksOn(key) = {}
        THEN ~is_blocked(key)
        ELSE /\ is_blocked(key) <=>
                   now < LastBlockOn(key).at + LastBlockOn(key).minutes
             /\ key \in DOMAIN BLACKLIST

\* a block of 60 minutes set at minute 1 has run out at minute 61 and the
\* key, still in the dict, is not reported blocked; another key is blocked
C16_Witness ==
    /\ now = 61
    /\ \E key \in BlockKeys :
          /\ BlocksOn(key) # {}
          /\ \A i \in BlocksOn(key) : calls[i].at = 1 /\ calls[i].minutes = 60
          /\ key \in DOMAIN BLACKLIST
          /\ ~is_blocked(key)
    /\ \E key \in BlockKeys : is_blocked(key)

\* C17: block(K, m) at minute T leaves exactly T + m as the expiry of K,
\* whatever the entry of K was before, adds no entry other than K's and
\* leaves the expiry of every other key as it was
C17_LastWriteWins ==
    [][calls' # calls =>
          LET c == calls'[Len(calls')]
          IN  /\ BLACKLIST'[c.key] = c.at + c.minutes
              /\ c.at = now
              /\ DOMAIN BLACKLIST' = DOMAIN BLACKLIST \cup {c.key}
              /\ \A k \in DOMAIN BLACKLIST \ {c.key} : BLACKLIST'[k] = BLACKLIST[k]]_vars

\* a key blocked for 180 minutes at minute 0 was blocked again for 60
\* minutes at minute 1: its one entry expires at minute 61
C17_Witness ==
    /\ Len(calls) = 2
    /\ calls[1].key = calls[2].key
    /\ calls[1].minutes = 180 /\ calls[1].at = 0
    /\ calls[2].minutes = 60 /\ calls[2].at = 1
    /\ DOMAIN BLACKLIST = {calls[1].key}
    /\ BLACKLIST[calls[1].key] = 61

(***************************************************************************)
(* Properties of the cycles of the loop engine (SpecCycle)                 *)
(***************************************************************************)
\* C18: after an error event with code 162, 10089, 354 or 200 for a
\* contract, the contract's key is reported blocked at every minute before
\* 180 minutes after the event, whatever the cycle did with the key since
C18_ErrorBlockHolds ==
    \A i \in 1 .. Len(calls) :
        /\ calls[i].code \in ERROR_CODES
        /\ now < calls[i].at + ERROR_BLOCK_MINUTES
        => is_blocked(calls[i].key)

\* the candidates handled so far in the dispatch loop, those of them passed
\* over because the client reports a position, and the smaller of two numbers
Handled == 1 .. (idx - 1)

PassedOver == {j \in Handled : candidates[j].sym \in ibPositions}

Min(a, b) == IF a <= b THEN a ELSE b

\* the dispatch loop ends with the position cap not reached and no
\* placement failed: every candidate handled was placed or passed over
DispatchEndsClean ==
    /\ pc = "dispatch"
    /\ pc' = "loop_sleep"
    /\ Cardinality(ibPositions) < MAX_OPEN_POSITIONS
    /\ trades + Cardinality(PassedOver) = idx - 1

\* the brackets placed in the cycle are the first trades candidates, in order
TopDispatched ==
    /\ trades = Min(MAX_NEW_TRADES_PER_LOOP, Len(candidates))
    /\ Len(brackets) >= trades
    /\ \A k \in 1 .. trades :
          /\ brackets[Len(brackets) - trades + k].sym = candidates[k].sym
          /\ \A j \in (k + 1) .. Len(candidates) :
                candidates[k].score >= candidates[j].score

\* C19, as stated: when the placements of a cycle succeed and the position
\* cap is not reached, the cycle dispatches exactly the min(per-cycle cap,
\* number of candidates) highest-scoring candidates in descending order
C19_RankedDispatch ==
    [][DispatchEndsClean => TopDispatched]_vars

\* C19, amended: the same when, besides, no candidate was passed over at
\* dispatch for a position the client reports by then; every candidate is
\* at or above the score threshold
C19_RankedDispatchNoneHeld ==
    /\ [][DispatchEndsClean /\ PassedOver = {} => TopDispatched]_vars
    /\ [](\A i \in 1 .. Len(candidates) : candidates[i].score >= MIN_SCORE)

\* the universe scored 0.90, 0.70, 0.95 in its order; with a cap of two the
\* 0.95 and then the 0.90 candidate were placed and the 0.70 one is left
C19_Witness ==
    /\ pc = "dispatch"
    /\ trades = 2
    /\ idx = 3
    /\ Len(candidates) = 3
    /\ candidates[1].score = 95 /\ candidates[1].sym = eu_contracts[1].symbol
    /\ candidates[2].score = 90 /\ candidates[2].sym = US_SYMBOLS[1]
    /\ candidates[3].score = 70 /\ candidates[3].sym = US_SYMBOLS[2]
    /\ Len(brackets) = 2
    /\ brackets[1].sym = candidates[1].sym
    /\ brackets[2].sym = candidates[2].sym

\* the symbols score_symbol was called on in the cycle
Requested == {wire[i].sym : i \in 1 .. Len(wire)}

\* C20: score_symbol is called only for a symbol the client reports no
\* position in and whose key is not blocked at that moment, and a symbol is
\* added to the candidates only by such a call
C20_OnlyEligibleScored ==
    /\ [][Len(wire') > Len(wire) =>
             LET r == wire'[Len(wire')]
             IN  /\ r.sym \notin ibPositions
                 /\ ~is_blocked(r.key)
                 /\ r.at = now]_vars
    /\ [][Len(candidates') > Len(candidates) =>
             LET x == candidates'[Len(candidates')]
             IN  /\ x.sym \notin ibPositions
                 /\ ~is_blocked(contract_key(x.c))
                 /\ Len(wire') > Len(wire)
                 /\ wire'[Len(wire')].sym = x.sym]_vars
    /\ [](\A i \in 1 .. Len(candidates) : candidates[i].sym \in Requested)

\* in the second cycle one symbol was scored, one was left out for the
\* position the client reports and one for its blocked key
C20_Witness ==
    /\ pc = "loop_rank"
    /\ now > 0
    /\ wire # << >>
    /\ \E sym \in ibPositions : sym \notin Requested
    /\ \E c \in {us_contracts[i] : i \in 1 .. Len(us_contracts)}
                \cup {eu_contracts[i] : i \in 1 .. Len(eu_contracts)} :
          /\ is_blocked(contract_key(c))
          /\ c.symbol \notin Requested
          /\ c.symbol \notin ibPositions

(***************************************************************************)
(* Properties of the position cap (SpecPositions)                          *)
(***************************************************************************)
\* C21: after any sequence of cycles and any timing of fills the number of
\* symbols with an open position at the broker never exceeds
\* MAX_OPEN_POSITIONS
C21_PositionCap ==
    Cardinality(Positions) <= MAX_OPEN_POSITIONS

(***************************************************************************)
(* Properties of score_symbol (SpecScore)                                  *)
(***************************************************************************)
\* C22: for every series shorter than the minimum bar count, the empty
\* series of a failed fetch included, score_symbol returns score 0 with the
\* reason for insufficient history, no price and no ATR, has read no bar
\* and has computed no indicator
C22_ShortSeries ==
    \A i \in 1 .. Len(calls) :
        calls[i].fn = "score_symbol" /\ Len(calls[i].bars) < MIN_BARS =>
            /\ calls[i].ret.score = Whole(0)
            /\ calls[i].ret.reason = "not_enough_bars"
            /\ calls[i].ret.price = None
            /\ calls[i].ret.a = None
            /\ calls[i].ret.read = {}
            /\ calls[i].ret.computed = {}

\* a series one bar short of the minimum, at a price below the band, was
\* scored
C22_Witness ==
    /\ Len(calls) = 1
    /\ calls[1].fn = "score_symbol"
    /\ calls[1].fetch = "bars"
    /\ Len(calls[1].bars) = MIN_BARS - 1
    /\ calls[1].bars[1].close = MIN_PRICE - 1
    /\ calls[1].ret.reason = "not_enough_bars"

\* the gates of score_symbol on a series, each on whole numbers: s is the
\* sum of the last ATR_N true ranges, p the last close
TooShort(bars) == Len(bars) < MIN_BARS

OutOfBand(bars) ==
    FromEnd(bars, 1).close < MIN_PRICE \/ FromEnd(bars, 1).close > MAX_PRICE

NoVolatility(bars) == Len(bars) < ATR_N + 1 \/ atr_sum(bars, ATR_N) <= 0

RatioOutOfRange(bars) ==
    LET sum_tr == atr_sum(bars, ATR_N)
        p      == FromEnd(bars, 1).close
    IN  \/ 1000 * sum_tr < 2 * ATR_N * p
        \/ 100 * sum_tr > 8 * ATR_N * p

NoTrend(bars) == Len(bars) < SMA_FAST \/ Len(bars) < SMA_SLOW

NoOscillator(bars) == Len(bars) < RSI_N + 1

\* the reason of the first gate that fails, "ok" when none does
FirstFailing(bars) ==
    IF TooShort(bars) THEN "not_enough_bars"
    ELSE IF OutOfBand(bars) THEN "price_out_of_range"
    ELSE IF NoVolatility(bars) THEN "atr_missing"
    ELSE IF RatioOutOfRange(bars) THEN "atr_pct_out_of_range"
    ELSE IF NoTrend(bars) THEN "sma_missing"
    ELSE IF NoOscillator(bars) THEN "rsi_missing"
    ELSE "ok"

\* C23: for every series the score is in [0, 1] and is 0 whenever the
\* reason is not ok; the reason is that of the first failing gate in the
\* order length, price band, volatility, volatility ratio, trend,
\* oscillator; every place of the series read exists, so nothing raises
C23_ScoreAndGates ==
    \A i \in 1 .. Len(calls) :
        calls[i].fn = "score_symbol" =>
        LET ret == calls[i].ret
        IN  /\ RLeq(Whole(0), ret.score) /\ RLeq(ret.score, Whole(1))
            /\ ret.score[2] > 0
            /\ ret.reason # "ok" => ret.score = Whole(0)
            /\ ret.reason = FirstFailing(calls[i].bars)
            /\ ret.read \subseteq 1 .. Len(calls[i].bars)

\* a series in the price band with a volatility ratio in range was scored
\* strictly between 0 and 1
C23_Witness ==
    /\ Len(calls) = 1
    /\ calls[1].fn = "score_symbol"
    /\ calls[1].ret.reason = "ok"
    /\ RLess(Whole(0), calls[1].ret.score)
    /\ RLess(calls[1].ret.score, Whole(1))
    /\ calls[1].ret.computed = {"atr", "sma", "rsi"}

\* C24: the RSI score is continuous at 40 and at 70: at 40 the piece for
\* values below 40 and the piece for 40 to 70 give the same score, at 70
\* the piece for 40 to 70 and the piece for values above 70 do
C24_ContinuousPieces ==
    \A i \in 1 .. Len(calls) :
        calls[i].fn = "rsi_score" =>
            /\ calls[i].r = 40 => calls[i].below = calls[i].between
            /\ calls[i].r = 70 => calls[i].between = calls[i].above

(***************************************************************************)
(* Properties of the session gates (SpecSession)                           *)
(***************************************************************************)
\* C25: every session gate reports closed on Saturday and Sunday of the
\* market's local week, and on a weekday reports open exactly from the
\* opening minute up to but excluding the closing minute: 09:30-16:00 in
\* New York, 09:00-17:30 in Copenhagen
C25_SessionWindows ==
    \A i \in 1 .. Len(calls) :
        LET c      == calls[i]
            opens  == IF c.fn = "eu_open" THEN 540 ELSE 570
            closes == IF c.fn = "eu_open" THEN 1050 ELSE 960
        IN  c.ret <=> (c.weekday < 5 /\ opens <= c.minute /\ c.minute < closes)

(***************************************************************************)
(* Properties of the state file and the two logs (Spec)                    *)
(***************************************************************************)
\* the process ends on a step that writes no file
StopsHere == pc # "idle" /\ pc' = "idle" /\ file' = file

\* when the process ends, a state file that was written holds main's state
WrittenAtStop == [][(StopsHere /\ file.status = "ok") => file.data = state]_vars

\* while no process runs and the file is not damaged, every entry-log row of
\* a position the broker still holds has that position recorded in the file
RowHasPosition ==
    (pc = "idle" /\ file.status # "malformed")
        => \A i \in 1 .. Len(entryLog) :
              brackets[entryLog[i].order_id].status \in {"open", "naked"}
                  => /\ file.status = "ok"
                     /\ file.data.open_position # None
                     /\ file.data.open_position[1].order_id = entryLog[i].order_id

\* C28: every change of the trade state is written to the state file before
\* the process can end, so whenever the process stops the written file holds
\* main's state, and an entry-log row of a trade never exists without the
\* trade's recorded open position.
C28_StateWrittenWithRow == WrittenAtStop /\ []RowHasPosition

(***************************************************************************)
(* Properties of the scan with errors (SpecScan)                           *)
(***************************************************************************)
\* C26: an error raised while one candidate is evaluated does not end the
\* cycle: the scan goes on with the next candidate.
C26_ErrorKeepsCycle ==
    [][Len(calls') > Len(calls) => pc' = "scan" /\ idx' = idx + 1]_vars

(***************************************************************************)
(* Properties of read_state (SpecReadState)                                *)
(***************************************************************************)
\* C27: read_state never raises; for a missing, unreadable or malformed
\* file it returns the default state of today; for a record it returns the
\* record with exactly the missing fields of the four filled with their
\* defaults and every field that was there kept
C27_ReadStateRecovers ==
    \A i \in 1 .. Len(calls) :
        calls[i].fn = "read_state" =>
            /\ ~calls[i].raised
            /\ file.status # "ok" =>
                  calls[i].ret = [date |-> calls[i].today, trades_today |-> 0,
                                  open_position |-> None, last_close_time |-> None]
            /\ file.status = "ok" =>
                  /\ DOMAIN calls[i].ret = DOMAIN file.data \cup STATE_KEYS
                  /\ \A k \in DOMAIN file.data : calls[i].ret[k] = file.data[k]
                  /\ "date" \notin DOMAIN file.data => calls[i].ret.date = calls[i].today
                  /\ "trades_today" \notin DOMAIN file.data => calls[i].ret.trades_today = 0
                  /\ "open_position" \notin DOMAIN file.data =>
                        calls[i].ret.open_position = None
                  /\ "last_close_time" \notin DOMAIN file.data =>
                        calls[i].ret.last_close_time = None

\* read_state has read a record that has an open position and a count and
\* lacks the date and the watermark, on the second day
C27_Witness ==
    /\ pc = "read"
    /\ file.status = "ok"
    /\ DOMAIN file.data = {"trades_today", "open_position"}
    /\ file.data.open_position # None
    /\ file.data.trades_today > 0
    /\ calls[1].today = 1

(***************************************************************************)
(* Properties of the log files (SpecLogs)                                  *)
(***************************************************************************)
\* one step on a log file: nothing, or the header into a missing or empty
\* file, or one row after the lines that were there
AppendsOnly(f, g) ==
    \/ g = f
    \/ /\ ~f.exists \/ f.lines = << >>
       /\ g = [exists |-> TRUE, lines |-> <<HeaderLine>>]
    \/ /\ f.exists
       /\ f.lines # << >>
       /\ g.exists
       /\ Len(g.lines) = Len(f.lines) + 1
       /\ SubSeq(g.lines, 1, Len(f.lines)) = f.lines
       /\ g.lines[Len(g.lines)] # HeaderLine

\* C29: the entry log and the close log are append-only over runs, restarts
\* and stops: no step removes or rewrites a line, the header is written only
\* into a missing or empty file, every other write adds one row at the end
C29_AppendOnly ==
    [][AppendsOnly(entryLog, entryLog') /\ AppendsOnly(closeLog, closeLog')]_vars

\* after two stops, one of them between the header check and the append of
\* a close, both logs hold their header once and two rows
C29_Witness ==
    /\ Len(calls) = 2
    /\ \E i \in 1 .. Len(calls) : calls[i].at = "close_append"
    /\ Len(entryLog.lines) = 3
    /\ Len(closeLog.lines) = 3
    /\ entryLog.lines[1] = HeaderLine
    /\ closeLog.lines[1] = HeaderLine
    /\ \A i \in 2 .. 3 : entryLog.lines[i] # HeaderLine /\ closeLog.lines[i] # HeaderLine

(***************************************************************************)
(* Properties of the blocks after a scoring failure (SpecSuppress)         *)
(***************************************************************************)
\* the contract a scoring step is at
Scoring == pc \in {"score_us", "score_eu"}

ScoredContract == IF pc = "score_us" THEN us_contracts[idx] ELSE eu_contracts[idx]

\* the latest request before this cycle for the key, 0 when there is none
LastRequest(key) ==
    IF \E i \in 1 .. Len(wire) : wire[i].key = key /\ wire[i].at < now
    THEN CHOOSE i \in 1 .. Len(wire) :
            /\ wire[i].key = key
            /\ wire[i].at < now
            /\ \A j \in 1 .. Len(wire) :
                  (wire[j].key = key /\ wire[j].at < now) => j <= i
    ELSE 0

\* score_symbol returned no candidate for a reason that is not of data quality
Passing(r) ==
    \/ r.reason \in {"price_out_of_range", "atr_pct_out_of_range"}
    \/ r.reason = "ok" /\ r.score < MIN_SCORE

\* C30: a scoring step blocks the key for 60 minutes exactly when the reason
\* returned is one of not_enough_bars, atr_missing, sma_missing, rsi_missing,
\* and changes no other entry; after a price or volatility-ratio reason or a
\* score below the threshold the symbol is requested again in the next cycle
\* that scores its region, unless a position is reported in it, and after a
\* data-quality reason it is not requested while the 60 minutes run
C30_DataReasonsBlock ==
    /\ [][Len(wire') > Len(wire) =>
             LET r == wire'[Len(wire')]
             IN  IF r.reason \in {"not_enough_bars", "atr_missing", "sma_missing",
                                  "rsi_missing"}
                 THEN /\ DOMAIN BLACKLIST' = DOMAIN BLACKLIST \cup {r.key}
                      /\ BLACKLIST'[r.key] = now + 60
                      /\ \A k \in DOMAIN BLACKLIST : k # r.key => BLACKLIST'[k] = BLACKLIST[k]
                 ELSE BLACKLIST' = BLACKLIST]_vars
    /\ [][(Scoring /\ LastRequest(contract_key(ScoredContract)) # 0) =>
             LET key == contract_key(ScoredContract)
                 w   == wire[LastRequest(key)]
             IN  /\ (Passing(w) /\ ScoredContract.symbol \notin ibPositions)
                       => /\ Len(wire') = Len(wire) + 1
                          /\ wire'[Len(wire')].key = key
                          /\ wire'[Len(wire')].at = now
                 /\ (~Passing(w) /\ w.reason # "ok" /\ now < w.at + 60)
                       => wire' = wire]_vars

\* in the second cycle a symbol that failed on its price in the first is
\* requested again while another, blocked for its missing volatility, is not
C30_Witness ==
    /\ pc = "loop_rank"
    /\ now > 0
    /\ \E i \in 1 .. Len(wire), j \in 1 .. Len(wire), k \in 1 .. Len(wire) :
          /\ wire[i].at = 0 /\ wire[i].reason = "price_out_of_range"
          /\ wire[j].at = now /\ wire[j].key = wire[i].key
          /\ wire[k].at = 0 /\ wire[k].reason = "atr_missing"
          /\ is_blocked(wire[k].key)
          /\ BLACKLIST[wire[k].key] = 60
          /\ \A m \in 1 .. Len(wire) : wire[m].key = wire[k].key => m = k
          /\ wire[i].key \notin DOMAIN BLACKLIST

(***************************************************************************)
(* Properties of a failed placement in the dispatch loop (SpecCycle)       *)
(***************************************************************************)
\* the dispatch loop handles its candidate and does not pass it over
Dispatches ==
    /\ pc = "dispatch"
    /\ idx' = idx + 1
    /\ candidates[idx].sym \notin ibPositions

\* the step released no bracket at the broker
NothingReleased ==
    \/ brackets' = brackets
    \/ brackets'[Len(brackets')].status = "held"

\* C31: when place_bracket fails for a candidate, the candidate's key is
\* blocked for 60 minutes, the count of new trades of the cycle stays as it
\* was, and the dispatch loop goes on with the next ranked candidate
C31_FailedPlacementBlocks ==
    [][(Dispatches /\ NothingReleased) =>
          /\ contract_key(candidates[idx].c) \in DOMAIN BLACKLIST'
          /\ BLACKLIST'[contract_key(candidates[idx].c)] = now + 60
          /\ trades' = trades
          /\ pc' = "dispatch"
          /\ candidates' = candidates]_vars

\* the first candidate of the cycle failed and is blocked, the second was
\* placed and is the only new trade counted
C31_Witness ==
    /\ pc = "dispatch"
    /\ idx = 3
    /\ trades = 1
    /\ contract_key(candidates[1].c) \in DOMAIN BLACKLIST
    /\ BLACKLIST[contract_key(candidates[1].c)] = now + 60
    /\ \E b \in BracketIds :
          brackets[b].sym = candidates[2].sym /\ brackets[b].status = "working"
    /\ \A b \in BracketIds :
          brackets[b].sym = candidates[1].sym => brackets[b].status = "held"

(***************************************************************************)
(* Properties of a place_bracket call as a whole (SpecOrders)              *)
(***************************************************************************)
\* C32: a place_bracket call of the loop engine that returns False has handed
\* no order to the broker, so none of its bracket is transmitted or left
\* pending there, and a call that returns True has handed over all three,
\* the last of them with transmit set
C32_AllOrNothing ==
    \A c \in 1 .. Len(calls) :
        calls[c].engine = "loop" =>
            /\ calls[c].ret = "false" => OrdersOf(c) = {}
            /\ calls[c].ret = "placed" =>
                  /\ Cardinality(OrdersOf(c)) = 3
                  /\ \E i \in OrdersOf(c) : wire[i].transmit

(***************************************************************************)
(* Properties of the loop as a whole (SpecLive)                            *)
(***************************************************************************)
\* the gate finds both sessions closed
GateClosed ==
    /\ pc = "loop_gate"
    /\ pc' # "loop_gate"
    /\ ~sessions'.u_open
    /\ ~sessions'.e_open

\* C33: a cycle that finds no session open goes to its sleep without a
\* scoring step, a candidate or an order; a cycle begins only out of a
\* sleep; the engine is always at a statement of the loop, every cycle that
\* begins reaches its sleep and every sleep is followed by the next cycle
C33_SleepsAndGoesOn ==
    /\ [][GateClosed =>
             /\ pc' = "loop_sleep"
             /\ candidates' = << >>
             /\ brackets' = brackets
             /\ BLACKLIST' = BLACKLIST]_vars
    /\ [][(pc' = "loop_gate" /\ pc # "loop_gate") => pc = "loop_sleep"]_vars
    /\ [](pc \in {"loop_gate", "score_us", "score_eu", "loop_rank", "dispatch",
                  "loop_sleep"})
    /\ (pc = "loop_gate") ~> (pc = "loop_sleep")
    /\ (pc = "loop_sleep") ~> (pc = "loop_gate")

\* after a cycle that placed a bracket, a cycle found both sessions closed
\* and sleeps
C33_Witness ==
    /\ pc = "loop_sleep"
    /\ ~sessions.u_open
    /\ ~sessions.e_open
    /\ brackets # << >>

(***************************************************************************)
(* Properties of connecting (SpecConnect)                                  *)
(***************************************************************************)
\* the attempt in progress is one of the first 3 (single-position engine) or
\* 8 (loop engine), a failed attempt is followed by the next one, and a
\* successful attempt ends the connecting
AttemptsBounded ==
    /\ [](pc = "connect" => attempt \in 1 .. 3)
    /\ [](pc = "loop_connect" => attempt \in 1 .. 8)
    /\ [][(pc \in {"connect", "loop_connect"} /\ pc' = pc /\ attempt' # attempt)
             => attempt' = attempt + 1]_vars
    /\ [][(pc = "connect" /\ pc' = "idle") => attempt = 3]_vars
    /\ [][(pc = "loop_connect" /\ pc' = "loop_failed") => attempt = 8]_vars

\* the loop engine that could not connect has scored and placed nothing
LoopFailedClean ==
    pc = "loop_failed" =>
        /\ brackets = << >>
        /\ candidates = << >>
        /\ BLACKLIST = << >>
        /\ wire = << >>

\* what read_state would return now
StoredNow == IF file.status = "ok" THEN file.data ELSE DefaultState

\* the last attempt of a run fails and main returns
EndsUnconnected == pc = "connect" /\ pc' = "idle"

\* a run that ends unconnected has placed no bracket, logged nothing and
\* leaves the tracked position and the watermark as they were stored
UnconnectedKeeps ==
    [][EndsUnconnected =>
          /\ Len(brackets') = calls[Len(calls)].orders
          /\ entryLog' = entryLog
          /\ closeLog' = closeLog
          /\ StoredNow'.open_position = calls[Len(calls)].stored.open_position
          /\ StoredNow'.last_close_time = calls[Len(calls)].stored.last_close_time]_vars

\* C34 as stated: connecting is attempted at most 8 times in the loop engine
\* and 3 times in the single-position engine and stops at the first success;
\* when every attempt fails the process ends with no candidate evaluated, no
\* order submitted and open_position, trades_today and last_close_time as
\* they were stored
C34_ConnectBounded ==
    /\ AttemptsBounded
    /\ []LoopFailedClean
    /\ UnconnectedKeeps
    /\ [][EndsUnconnected =>
             StoredNow'.trades_today = calls[Len(calls)].stored.trades_today]_vars

\* C34 (amended): the same, except that trades_today is as it was stored
\* only when the stored date is the day of the run; on a later day the load
\* has set it to 0 before the first connect attempt
C34_ConnectBoundedAfterLoad ==
    /\ AttemptsBounded
    /\ []LoopFailedClean
    /\ UnconnectedKeeps
    /\ [][EndsUnconnected =>
             StoredNow'.trades_today =
                 IF calls[Len(calls)].stored.date = StoredNow'.date
                 THEN calls[Len(calls)].stored.trades_today
                 ELSE 0]_vars

\* a run on the day after a trade was recorded ended unconnected: the
\* position is still tracked and the count of the day before is gone
C34_Witness ==
    /\ pc = "idle"
    /\ calls # << >>
    /\ calls[Len(calls)].ended = "not_connected"
    /\ calls[Len(calls)].stored.open_position # None
    /\ calls[Len(calls)].stored.trades_today = 1
    /\ calls[Len(calls)].stored.date = 0
    /\ file.status = "ok"
    /\ file.data.date = 1
    /\ file.data.trades_today = 0
    /\ file.data.open_position = calls[Len(calls)].stored.open_position

(***************************************************************************)
(* Properties of the watermark (SpecWatermark)                             *)
(***************************************************************************)
\* the watermark as stored
Watermark == read_state.last_close_time

\* C35: the stored last_close_time never goes back: a step that changes it
\* is the state write of a reconciliation that has appended a close-log row
\* for the same exit time, and the new value is later than the old one;
\* between its load and the end of a run the watermark in memory changes
\* on that step only
C35_WatermarkMonotone ==
    /\ [][Watermark' # Watermark =>
             /\ pc = "close_write"
             /\ branch = "closing"
             /\ Watermark' # None
             /\ Watermark # None => Watermark'[1] > Watermark[1]
             /\ closeLog # << >>
             /\ closeLog' = closeLog
             /\ closeLog[Len(closeLog)].exit_time_utc = Watermark'[1]]_vars
    /\ [][(pc # "close_write" /\ pc' = "close_write") =>
             /\ pc = "reconcile"
             /\ Len(closeLog') = Len(closeLog) + 1
             /\ Watermark' = Watermark]_vars
    /\ [][(pc \notin {"idle", "close_write"} /\ pc' # "idle") =>
             state'.last_close_time = state.last_close_time]_vars
    /\ [](pc \notin {"idle", "connect"} => state.last_close_time = Watermark)

\* a run on the second day has logged the close of a position opened on the
\* first and moved the stored watermark forward, with an older sell
\* execution of the symbol in the broker's list
C35_Witness ==
    /\ pc = "gate"
    /\ branch = "closed"
    /\ calls # << >>
    /\ LET stored == calls[Len(calls)].stored
       IN  /\ stored.last_close_time # None
           /\ stored.open_position # None
           /\ stored.date # state.date
           /\ state.last_close_time[1] > stored.last_close_time[1]
           /\ Watermark = state.last_close_time
           /\ \E i \in 1 .. Len(ibExecs) :
                 /\ ibExecs[i].side = "SLD"
                 /\ ibExecs[i].sym = stored.open_position[1].symbol
                 /\ ibExecs[i].time <= stored.last_close_time[1]

(***************************************************************************)
(* Properties of one run of main (SpecCap)                                 *)
(***************************************************************************)
\* the run is past its place_bracket call
Placed == pc \in {"wait_fill", "record"}

\* trades_today as stored
StoredTrades == read_state.trades_today

\* C36: a run places at most one bracket: a bracket enters the book only on
\* the step of the scan that calls place_bracket, which no run takes twice;
\* after it the run evaluates no ticker and ends, on no fill or after the
\* position is recorded; the stored trades_today goes up only on the step
\* that records an open position, and on every such step by exactly 1
C36_OneBracketPerRun ==
    /\ [][Len(brackets') # Len(brackets) =>
             /\ pc = "scan"
             /\ pc' = "wait_fill"
             /\ placed = None
             /\ placed' # None
             /\ Len(brackets') = Len(brackets) + 1]_vars
    /\ [](placed # None <=> Placed)
    /\ [][(Placed /\ pc' # pc) =>
             /\ (pc = "wait_fill" /\ pc' = "record") \/ pc' = "idle"
             /\ parent_fills(placed[1].order_id) = {} => pc' = "idle"]_vars
    /\ [][Placed => idx' \in {idx, 0} /\ Len(brackets') = Len(brackets)]_vars
    /\ [][StoredTrades' > StoredTrades =>
             /\ pc = "record"
             /\ pc' = "idle"
             /\ StoredTrades' = StoredTrades + 1
             /\ read_state'.open_position # None
             /\ read_state'.open_position # read_state.open_position]_vars
    /\ [][(read_state'.open_position # None
             /\ read_state'.open_position # read_state.open_position) =>
             StoredTrades' = StoredTrades + 1]_vars

\* three runs have each placed one bracket, the first ended on no fill and
\* the other two recorded a position in the first ticker
C36_Witness ==
    /\ pc = "idle"
    /\ Len(brackets) = 3
    /\ Len(entryLog) = 2
    /\ \A i \in 1 .. 2 : entryLog[i].symbol = TICKERS[1]
    /\ entryLog[1].order_id = 2
    /\ file.status = "ok"
    /\ file.data.trades_today = 2
    /\ file.data.open_position # None

(***************************************************************************)
(* Properties of the day rollover (SpecWatermark)                          *)
(***************************************************************************)
\* what the running main loaded at line 274, before the reset
LoadedRecord == calls[Len(calls)].stored

\* the run is on a later day than the one its record was stored on
RolledOver == calls # << >> /\ LoadedRecord.date # state.date

\* C37: the load of a run changes nothing of the record but date and
\* trades_today: open_position and last_close_time are, in memory and in the
\* file, what was stored, on a new day too; the reconciliation of a run on a
\* new day works on the position that was stored the day before: it leaves
\* it tracked while the broker shows it, and otherwise clears it or logs its
\* close
C37_RolloverKeepsPosition ==
    /\ [][(pc = "idle" /\ pc' = "connect") =>
             /\ DOMAIN state' = DOMAIN read_state
             /\ \A k \in DOMAIN read_state \ {"date", "trades_today"} :
                   /\ state'[k] = read_state[k]
                   /\ read_state'[k] = read_state[k]]_vars
    /\ [](pc \in {"connect", "reconcile"} =>
             /\ state.open_position = LoadedRecord.open_position
             /\ state.last_close_time = LoadedRecord.last_close_time)
    /\ [][(pc = "reconcile" /\ pc' # "reconcile" /\ RolledOver
             /\ LoadedRecord.open_position # None) =>
             /\ branch' \in {"active", "cleared", "closing"}
             /\ branch' = "active" =>
                   /\ state'.open_position = LoadedRecord.open_position
                   /\ file' = file
             /\ branch' = "cleared" => read_state'.open_position = None
             /\ branch' = "closing" =>
                   LET row == closeLog'[Len(closeLog')]
                       pos == LoadedRecord.open_position[1]
                   IN  /\ row.symbol = pos.symbol
                       /\ row.qty = pos.qty
                       /\ row.entry_price = pos.entry_price
                       /\ row.exit_time_utc > pos.entry_time]_vars

\* a run on the second day has reset the count of two trades of the first
\* day and logged the close of the position the first day left tracked, with
\* a watermark stored since before the first day's trade
C37_Witness ==
    /\ pc = "gate"
    /\ branch = "closed"
    /\ RolledOver
    /\ LoadedRecord.trades_today = 2
    /\ LoadedRecord.open_position # None
    /\ LoadedRecord.last_close_time # None
    /\ state.trades_today = 0
    /\ state.open_position = None
    /\ read_state = state
    /\ closeLog # << >>
    /\ closeLog[Len(closeLog)].symbol = LoadedRecord.open_position[1].symbol

====
